---- MODULE Spec2Model ----
(***************************************************************************)
(* Model of the marketing-strategy pipeline: the Streamlit front end       *)
(* (main.py), the four-node LangGraph workflow (graph/workflow.py), the    *)
(* four stage agents (agents/*.py) and the search / scrape adapters       *)
(* (tools/*.py).                                                           *)
(*                                                                         *)
(* Text is modelled as a sequence of one-character strings.  A model       *)
(* response is a sequence of tokens: the characters the fence-stripping    *)
(* code looks at (backtick, j, s, o, n, blank, newline) and the lexical    *)
(* tokens of a JSON document (braces, brackets, member keys, atoms).       *)
(***************************************************************************)
EXTENDS Integers, Sequences, FiniteSets, TLC

\* ------------------------------------------------------------------------
\* Bounds of the model
\* ------------------------------------------------------------------------
MaxRuns == 2        \* button presses explored per session
MaxPad == 2         \* blanks / newlines put in and around a fenced response
MaxItems == 2       \* longest campaign_ideas / copies list a response holds

\* ------------------------------------------------------------------------
\* Python values
\* ------------------------------------------------------------------------
None == [none |-> TRUE]

\* a str held where None is possible too (Optional[str])
Str(t) == [text |-> t]

\* how a call ends: it raises e, or it returns v
Raised(e) == [ok |-> FALSE, value |-> e]

Returned(v) == [ok |-> TRUE, value |-> v]

Whitespace == {" ", "\n"}

Rep(c, n) == [i \in 1..n |-> c]

\* s[:n] for n >= 0
Take(s, n) == SubSeq(s, 1, IF n < Len(s) THEN n ELSE Len(s))

\* s[n:] for n >= 0
Drop(s, n) == SubSeq(s, n + 1, Len(s))

\* s[:-n] for n > 0
DropLast(s, n) == SubSeq(s, 1, Len(s) - n)

StartsWith(s, p) == Len(s) >= Len(p) /\ SubSeq(s, 1, Len(p)) = p

EndsWith(s, p) == Len(s) >= Len(p) /\ SubSeq(s, Len(s) - Len(p) + 1, Len(s)) = p

RECURSIVE LStrip(_)
LStrip(s) == IF s # <<>> /\ Head(s) \in Whitespace THEN LStrip(Tail(s)) ELSE s

RECURSIVE RStrip(_)
RStrip(s) ==
    IF s # <<>> /\ s[Len(s)] \in Whitespace THEN RStrip(SubSeq(s, 1, Len(s) - 1)) ELSE s

\* str.strip()
Strip(s) == RStrip(LStrip(s))

\* {**state, **upd}
Merge(state, upd) ==
    [k \in DOMAIN state \cup DOMAIN upd |-> IF k \in DOMAIN upd THEN upd[k] ELSE state[k]]

\* state.get(k)
Get(state, k) == IF k \in DOMAIN state THEN state[k] ELSE None

\* state.get(k, default)
GetOr(state, k, default) == IF k \in DOMAIN state THEN state[k] ELSE default

\* ------------------------------------------------------------------------
\* Code-fence removal (identical text in all four agents)
\* ------------------------------------------------------------------------
\* The backquote character (U+0060); the TLA+ lexer rejects it inside a string.
Tick == "BQ"

FenceJson == <<Tick, Tick, Tick, "j", "s", "o", "n">>

Fence == <<Tick, Tick, Tick>>

\* a variant that knows only the "json" opening fence
StripCodeFenceJsonOnly(content) ==
    LET t0 == Strip(content)
        t1 == IF StartsWith(t0, FenceJson) THEN Drop(t0, 7) ELSE t0
        t3 == IF EndsWith(t1, Fence) THEN DropLast(t1, 3) ELSE t1
    IN  Strip(t3)

StripCodeFence(content) ==
    LET t0 == Strip(content)
        t1 == IF StartsWith(t0, FenceJson) THEN Drop(t0, 7) ELSE t0
        t2 == IF StartsWith(t1, Fence) THEN Drop(t1, 3) ELSE t1
        t3 == IF EndsWith(t2, Fence) THEN DropLast(t2, 3) ELSE t2
    IN  Strip(t3)

\* ------------------------------------------------------------------------
\* JSON documents (json.loads) at token level.  Member keys and atoms are
\* single tokens; an atom stands for a complete, non-empty JSON string or a
\* complete, non-empty JSON object whose values are strings.
\* ------------------------------------------------------------------------
DictAtoms == {"D1", "D2", "IDEA1", "IDEA2", "IDEA_NO_CHANNEL", "COPY1", "COPY2", "COPY_NO_BODY"}

StrAtoms == {"S1", "S2"}

Atoms == DictAtoms \cup StrAtoms

AtomType(a) == IF a \in DictAtoms THEN "dict" ELSE "str"

Keys == {"customer_profile", "competitors", "target_audience", "market_positioning",
         "market_trends", "tech_trends", "consumer_trends", "trend_impact", "opportunities",
         "name", "goals", "tactics", "channels", "KPIs",
         "campaign_ideas", "copies", "notes"}

JsonError == [ok |-> FALSE, kind |-> "error", dict |-> <<>>]

NoWhitespace(s) == SelectSeq(s, LAMBDA c : c \notin Whitespace)

\* index of the first "]" in toks at or after position i, 0 when there is none
RECURSIVE FindClose(_, _)
FindClose(toks, i) ==
    IF i > Len(toks) THEN 0
    ELSE IF toks[i] = "]" THEN i
    ELSE FindClose(toks, i + 1)

\* the members between "{" and "}"; a repeated key keeps its last value
RECURSIVE ParseMembers(_, _)
ParseMembers(toks, acc) ==
    IF toks = <<>> THEN [ok |-> TRUE, kind |-> "object", dict |-> acc]
    ELSE IF Len(toks) < 2 \/ toks[1] \notin Keys THEN JsonError
    ELSE IF toks[2] \in Atoms
         THEN ParseMembers(Drop(toks, 2),
                  Merge(acc, toks[1] :> [type |-> AtomType(toks[2]), items |-> <<toks[2]>>]))
    ELSE IF toks[2] = "["
         THEN LET close == FindClose(toks, 3)
              IN  IF close = 0 THEN JsonError
                  ELSE IF \E i \in 3..(close - 1) : toks[i] \notin Atoms THEN JsonError
                  ELSE ParseMembers(Drop(toks, close),
                           Merge(acc, toks[1] :> [type |-> "list",
                                                  items |-> SubSeq(toks, 3, close - 1)]))
    ELSE JsonError

json_loads(text) ==
    LET t == NoWhitespace(text)
    IN  IF t = <<"[", "]">> THEN [ok |-> TRUE, kind |-> "array", dict |-> <<>>]
        ELSE IF Len(t) = 1 /\ t[1] \in Atoms THEN [ok |-> TRUE, kind |-> "atom", dict |-> <<>>]
        ELSE IF Len(t) >= 2 /\ t[1] = "{" /\ t[Len(t)] = "}"
             THEN ParseMembers(SubSeq(t, 2, Len(t) - 1), <<>>)
        ELSE JsonError

\* ------------------------------------------------------------------------
\* Typed records (models/schemas.py).  A field type is "dict" (Dict[str,str]),
\* "str", "list:dict" (List[Dict[str,str]]) or "list:str" (List[str]).
\* ------------------------------------------------------------------------
MarketResearch ==
    [customer_profile |-> "dict", competitors |-> "list:dict",
     target_audience |-> "dict", market_positioning |-> "str"]

TrendAnalysis ==
    [market_trends |-> "list:str", tech_trends |-> "list:str", consumer_trends |-> "list:str",
     trend_impact |-> "str", opportunities |-> "list:str"]

MarketingStrategy ==
    [name |-> "str", goals |-> "list:str", tactics |-> "list:str",
     channels |-> "list:str", KPIs |-> "list:str"]

\* atoms that hold every required key of CampaignIdea / of Copy
CampaignIdea == {"IDEA1", "IDEA2"}

Copy == {"COPY1", "COPY2"}

TypeOk(type, v) ==
    CASE type = "dict" -> v.type = "dict"
      [] type = "str" -> v.type = "str"
      [] type = "list:dict" ->
            v.type = "list" /\ \A i \in 1..Len(v.items) : AtomType(v.items[i]) = "dict"
      [] type = "list:str" ->
            v.type = "list" /\ \A i \in 1..Len(v.items) : AtomType(v.items[i]) = "str"

FieldValue(type, v) == IF type \in {"dict", "str"} THEN v.items[1] ELSE v.items

\* Model(**result_dict): every declared field is required, other keys are ignored
Construct(schema, dict) ==
    IF \A f \in DOMAIN schema : f \in DOMAIN dict /\ TypeOk(schema[f], dict[f])
    THEN Returned([f \in DOMAIN schema |-> FieldValue(schema[f], dict[f])])
    ELSE Raised("ValidationError")

\* strip fences, json.loads, Model(**result_dict) as market research, trend
\* analysis and strategy planning do it
ParseRecord(schema, content) ==
    LET result_text == StripCodeFence(content)
        parsed == json_loads(result_text)
    IN  IF ~parsed.ok THEN Raised("JSONDecodeError")
        ELSE IF parsed.kind # "object" THEN Raised("TypeError")
        ELSE Construct(schema, parsed.dict)

\* [Model(**item) for item in result_dict[key]]
ConstructList(valid, dict, key) ==
    IF key \notin DOMAIN dict THEN Raised("KeyError")
    ELSE IF dict[key].type # "list" THEN Raised("TypeError")
    ELSE IF \E i \in 1..Len(dict[key].items) : AtomType(dict[key].items[i]) # "dict"
         THEN Raised("TypeError")
    ELSE IF \E i \in 1..Len(dict[key].items) : dict[key].items[i] \notin valid
         THEN Raised("ValidationError")
    ELSE Returned(dict[key].items)

\* a variant that insists on one copy per idea
ParseCampaignContentPaired(content) ==
    LET result_text == StripCodeFence(content)
        parsed == json_loads(result_text)
    IN  IF ~parsed.ok THEN Raised("JSONDecodeError")
        ELSE IF parsed.kind # "object" THEN Raised("TypeError")
        ELSE LET campaign_ideas == ConstructList(CampaignIdea, parsed.dict, "campaign_ideas")
                 copies == ConstructList(Copy, parsed.dict, "copies")
             IN  IF ~campaign_ideas.ok THEN campaign_ideas
                 ELSE IF ~copies.ok THEN copies
                 ELSE IF Len(campaign_ideas.value) # Len(copies.value)
                      THEN Raised("ValueError")
                 ELSE Returned([campaign_ideas |-> campaign_ideas.value,
                                copies |-> copies.value])

\* strip fences, json.loads, build the ideas, then the copies, then the content
ParseCampaignContent(content) ==
    LET result_text == StripCodeFence(content)
        parsed == json_loads(result_text)
    IN  IF ~parsed.ok THEN Raised("JSONDecodeError")
        ELSE IF parsed.kind # "object" THEN Raised("TypeError")
        ELSE LET campaign_ideas == ConstructList(CampaignIdea, parsed.dict, "campaign_ideas")
                 copies == ConstructList(Copy, parsed.dict, "copies")
             IN  IF ~campaign_ideas.ok THEN campaign_ideas
                 ELSE IF ~copies.ok THEN copies
                 ELSE Returned([campaign_ideas |-> campaign_ideas.value,
                                copies |-> copies.value])

\* ------------------------------------------------------------------------
\* Search adapter (tools/web_search.py).  A search response is what the
\* HTTP request produced: [ok |-> FALSE] for a network error, an HTTP error
\* status or an undecodable body, otherwise [ok |-> TRUE, data |-> d] with d
\* the decoded JSON object.
\* ------------------------------------------------------------------------
Min(a, b) == IF a < b THEN a ELSE b

ReplaceSpaces(q) == [i \in 1..Len(q) |-> IF q[i] = " " THEN "+" ELSE q[i]]

SimulatedCap == 3

\* a variant that repeats the placeholder once per requested result
simulated_search_uncapped(query, num_results) ==
    Rep([title |-> <<"Search result for: ">> \o query,
         snippet |-> <<"This is a simulated search result.">>,
         link |-> <<"https://example.com/search?q=">> \o ReplaceSpaces(query)],
        num_results)

simulated_search(query, num_results) ==
    Rep([title |-> <<"Search result for: ">> \o query,
         snippet |-> <<"This is a simulated search result.">>,
         link |-> <<"https://example.com/search?q=">> \o ReplaceSpaces(query)],
        Min(num_results, SimulatedCap))

\* a variant that returns every organic result, however many were asked for
search_with_serper_unsliced(query, num_results, response) ==
    IF ~response.ok THEN Returned(simulated_search(query, num_results))
    ELSE LET organic == GetOr(response.data, "organic", <<>>)
         IN  Returned([i \in 1..Len(organic) |->
                          [title |-> GetOr(organic[i], "title", <<>>),
                           snippet |-> GetOr(organic[i], "snippet", <<>>),
                           link |-> GetOr(organic[i], "link", <<>>)]])

\* a variant that lets a failed request error out
search_with_serper_raising(query, num_results, response) ==
    IF ~response.ok THEN Raised("RequestException")
    ELSE LET organic == GetOr(response.data, "organic", <<>>)
             first == Take(organic, num_results)
         IN  Returned([i \in 1..Len(first) |->
                          [title |-> GetOr(first[i], "title", <<>>),
                           snippet |-> GetOr(first[i], "snippet", <<>>),
                           link |-> GetOr(first[i], "link", <<>>)]])

search_with_serper(query, num_results, response) ==
    IF ~response.ok THEN Returned(simulated_search(query, num_results))
    ELSE LET organic == GetOr(response.data, "organic", <<>>)
             first == Take(organic, num_results)
         IN  Returned([i \in 1..Len(first) |->
                          [title |-> GetOr(first[i], "title", <<>>),
                           snippet |-> GetOr(first[i], "snippet", <<>>),
                           link |-> GetOr(first[i], "link", <<>>)]])

NumResults == 5

CompetitorsQuery(company_domain, industry) ==
    industry \o <<" ", "c", "o", "m", "p", "a", "n", "i", "e", "s", " ", "c", "o", "m", "p", "e", "t", "i", "t", "o", "r", "s", " ", "o", "f", " ">> \o company_domain

MarketTrendsQuery(industry) ==
    industry \o <<" ", "m", "a", "r", "k", "e", "t", " ", "t", "r", "e", "n", "d", "s", " ", "2", "0", "2", "4", " ", "2", "0", "2", "5">>

TargetAudienceQuery(industry, product) ==
    industry \o <<" ">> \o product \o <<" ", "t", "a", "r", "g", "e", "t", " ", "a", "u", "d", "i", "e", "n", "c", "e", " ", "d", "e", "m", "o", "g", "r", "a", "p", "h", "i", "c", "s">>

\* ------------------------------------------------------------------------
\* Scrape adapter (tools/web_scraper.py).  A scrape response is
\* [ok |-> FALSE] for any fetch error, otherwise [ok |-> TRUE, text |-> t]
\* with t the text BeautifulSoup extracts from the page.
\* ------------------------------------------------------------------------
\* s.split(sep), continued from the piece cur
RECURSIVE SplitOn(_, _, _)
SplitOn(s, sep, cur) ==
    IF s = <<>> THEN <<cur>>
    ELSE IF StartsWith(s, sep) THEN <<cur>> \o SplitOn(Drop(s, Len(sep)), sep, <<>>)
    ELSE SplitOn(Tail(s), sep, Append(cur, Head(s)))

\* sep.join(parts)
RECURSIVE Join(_, _)
Join(parts, sep) ==
    IF parts = <<>> THEN <<>>
    ELSE IF Len(parts) = 1 THEN parts[1]
    ELSE parts[1] \o sep \o Join(Tail(parts), sep)

RECURSIVE Chunks(_)
Chunks(lines) ==
    IF lines = <<>> THEN <<>>
    ELSE LET phrases == SplitOn(Strip(Head(lines)), <<" ", " ">>, <<>>)
         IN  [i \in 1..Len(phrases) |-> Strip(phrases[i])] \o Chunks(Tail(lines))

CleanText(text) ==
    Join(SelectSeq(Chunks(SplitOn(text, <<"\n">>, <<>>)), LAMBDA chunk : chunk # <<>>),
         <<"\n">>)

Ellipsis == <<".", ".", ".">>

\* a variant that lets the fetch error out
scrape_raising(url, max_length, response) ==
    IF ~response.ok THEN Raised("RequestException")
    ELSE LET text == CleanText(response.text)
         IN  Returned(Str(IF Len(text) > max_length THEN Take(text, max_length) \o Ellipsis
                          ELSE text))

\* a variant that cuts and marks the text whatever its length
scrape_always_suffixed(url, max_length, response) ==
    IF ~response.ok THEN Returned(None)
    ELSE Returned(Str(Take(CleanText(response.text), max_length) \o Ellipsis))

scrape(url, max_length, response) ==
    IF ~response.ok THEN Returned(None)
    ELSE LET text == CleanText(response.text)
         IN  Returned(Str(IF Len(text) > max_length THEN Take(text, max_length) \o Ellipsis
                          ELSE text))

DefaultMaxLength == 5000

Http == <<"h", "t", "t", "p">>

CompanyUrl(domain) ==
    IF ~StartsWith(domain, Http) THEN <<"h", "t", "t", "p", "s", ":", "/", "/">> \o domain ELSE domain

\* ------------------------------------------------------------------------
\* Stage agents (agents/*.py): the prompt each stage sends and the state it
\* returns.  A model outcome is Raised(e) when chain.invoke raises and
\* Returned(content) when it returns a message with that content.
\* ------------------------------------------------------------------------
\* Python truthiness of an Optional record and of an Optional[str]
Truthy(x) == x # None

TruthyStr(x) == x # None /\ x.text # <<>>

RECURSIVE FormatResults(_, _)
FormatResults(results, i) ==
    IF results = <<>> THEN <<>>
    ELSE <<"\n", ToString(i), ". ">> \o GetOr(Head(results), "title", <<>>)
         \o <<"\n   ">> \o GetOr(Head(results), "snippet", <<>>) \o <<"\n">>
         \o FormatResults(Tail(results), i + 1)

format_search_results(competitor_results, audience_results) ==
    <<"=== Competitor Information ===\n">> \o FormatResults(Take(competitor_results, 3), 1)
    \o <<"\n=== Target Audience Information ===\n">>
    \o FormatResults(Take(audience_results, 3), 1)

NoContentAvailable == <<"No content available">>

market_researcher_prompt(state, competitor_results, audience_results, company_content) ==
    [company_domain |-> GetOr(state, "company_domain", <<>>),
     industry |-> GetOr(state, "industry", <<>>),
     project_description |-> GetOr(state, "project_description", <<>>),
     target_market |-> GetOr(state, "target_market", <<"Not specified">>),
     search_results |-> format_search_results(competitor_results, audience_results),
     company_content |-> IF TruthyStr(company_content) THEN company_content.text
                         ELSE NoContentAvailable]

\* except Exception as e
market_researcher_except(state, e) ==
    Merge(state, [error |-> Str(<<"Market research failed: ", e>>),
                  current_step |-> "market_research_failed"])

\* a variant whose failure path stores an empty record of its own
market_researcher_analyze_placeholder(state, outcome) ==
    LET market_research == IF outcome.ok THEN ParseRecord(MarketResearch, outcome.value) ELSE outcome
    IN  IF market_research.ok
        THEN Merge(state, [market_research |-> market_research.value,
                           current_step |-> "market_research_completed"])
        ELSE Merge(market_researcher_except(state, market_research.value),
                   [market_research |-> [customer_profile |-> <<>>, competitors |-> <<>>,
                                         target_audience |-> <<>>,
                                         market_positioning |-> <<>>]])

market_researcher_analyze(state, outcome) ==
    LET market_research == IF outcome.ok THEN ParseRecord(MarketResearch, outcome.value) ELSE outcome
    IN  IF market_research.ok
        THEN Merge(state, [market_research |-> market_research.value,
                           current_step |-> "market_research_completed"])
        ELSE market_researcher_except(state, market_research.value)

NoMarketResearch == <<"No market research available">>

trend_format_market_research(market_research) ==
    IF ~Truthy(market_research) THEN NoMarketResearch
    ELSE <<"\nCustomer, Industry, Market Position: ", market_research.customer_profile,
           "\nTarget Audience: ", market_research.target_audience,
           "\nTop Competitors:\n">> \o Take(market_research.competitors, 3)

format_trend_results(trend_results) == FormatResults(Take(trend_results, 5), 1)

trend_analyzer_prompt(state, trend_results) ==
    [industry |-> GetOr(state, "industry", <<>>),
     company_domain |-> GetOr(state, "company_domain", <<>>),
     market_research |-> trend_format_market_research(Get(state, "market_research")),
     trend_results |-> format_trend_results(trend_results)]

\* except Exception as e
trend_analyzer_except(state, e) ==
    Merge(state, [error |-> Str(<<"Trend analysis failed: ", e>>),
                  current_step |-> "trend_analysis_failed"])

\* a variant whose success path resets the error of an earlier stage
trend_analyzer_analyze_clearing(state, outcome) ==
    LET trend_analysis == IF outcome.ok THEN ParseRecord(TrendAnalysis, outcome.value) ELSE outcome
    IN  IF trend_analysis.ok
        THEN Merge(state, [trend_analysis |-> trend_analysis.value,
                           error |-> None,
                           current_step |-> "trend_analysis_completed"])
        ELSE trend_analyzer_except(state, trend_analysis.value)

trend_analyzer_analyze(state, outcome) ==
    LET trend_analysis == IF outcome.ok THEN ParseRecord(TrendAnalysis, outcome.value) ELSE outcome
    IN  IF trend_analysis.ok
        THEN Merge(state, [trend_analysis |-> trend_analysis.value,
                           current_step |-> "trend_analysis_completed"])
        ELSE trend_analyzer_except(state, trend_analysis.value)

strategy_format_market_research(market_research) ==
    IF ~Truthy(market_research) THEN NoMarketResearch
    ELSE <<"\nCustomer Profile: ", market_research.customer_profile,
           "\nTarget Audience: ", market_research.target_audience,
           "\nMarket Positioning: ", market_research.market_positioning,
           "\nKey Competitors: ">> \o Take(market_research.competitors, 3)

NoTrendAnalysis == <<"No trend analysis available">>

format_trend_analysis(trend_analysis) ==
    IF ~Truthy(trend_analysis) THEN NoTrendAnalysis
    ELSE <<"\nMarket Trends:\n">> \o trend_analysis.market_trends
         \o <<"\nTechnology Trends:\n">> \o trend_analysis.tech_trends
         \o <<"\nConsumer Trends:\n">> \o trend_analysis.consumer_trends
         \o <<"\nTrend Impact: ", trend_analysis.trend_impact>>
         \o <<"\nIdentified Opportunities:\n">> \o trend_analysis.opportunities

strategy_planner_prompt(state) ==
    [project_description |-> GetOr(state, "project_description", <<>>),
     target_market |-> GetOr(state, "target_market", <<"Not specified">>),
     market_research |-> strategy_format_market_research(Get(state, "market_research")),
     trend_analysis |-> format_trend_analysis(Get(state, "trend_analysis"))]

\* except Exception as e
strategy_planner_except(state, e) ==
    Merge(state, [error |-> Str(<<"Strategy planning failed: ", e>>),
                  current_step |-> "strategy_planning_failed"])

\* a variant whose failure path hands back a state without the trend analysis
strategy_planner_plan_dropping(state, outcome) ==
    LET marketing_strategy == IF outcome.ok THEN ParseRecord(MarketingStrategy, outcome.value) ELSE outcome
    IN  IF marketing_strategy.ok
        THEN Merge(state, [marketing_strategy |-> marketing_strategy.value,
                           current_step |-> "strategy_planning_completed"])
        ELSE Merge(strategy_planner_except(state, marketing_strategy.value),
                   [trend_analysis |-> None])

strategy_planner_plan(state, outcome) ==
    LET marketing_strategy == IF outcome.ok THEN ParseRecord(MarketingStrategy, outcome.value) ELSE outcome
    IN  IF marketing_strategy.ok
        THEN Merge(state, [marketing_strategy |-> marketing_strategy.value,
                           current_step |-> "strategy_planning_completed"])
        ELSE strategy_planner_except(state, marketing_strategy.value)

NoMarketingStrategy == <<"No marketing strategy available">>

format_strategy(marketing_strategy) ==
    IF ~Truthy(marketing_strategy) THEN NoMarketingStrategy
    ELSE <<"\nStrategy Name: ", marketing_strategy.name>>
         \o <<"\nGoals:\n">> \o marketing_strategy.goals
         \o <<"\nTactics:\n">> \o marketing_strategy.tactics
         \o <<"\nChannels:\n">> \o marketing_strategy.channels
         \o <<"\nKPIs:\n">> \o marketing_strategy.KPIs

\* a variant that repeats the market research placeholder
NoAudienceInformationCopied == <<"No market research available">>

NoAudienceInformation == <<"No audience information available">>

format_audience(market_research) ==
    IF ~Truthy(market_research) THEN NoAudienceInformation
    ELSE <<"\nDemographics, Preferences, Pain Points, Behavior: ",
           market_research.target_audience>>

content_creator_prompt(state) ==
    [project_description |-> GetOr(state, "project_description", <<>>),
     marketing_strategy |-> format_strategy(Get(state, "marketing_strategy")),
     target_audience |-> format_audience(Get(state, "market_research"))]

\* a variant that also clears the stage's record
content_creator_except_clearing(state, e) ==
    Merge(state, [error |-> Str(<<"Content creation failed: ", e>>),
                  current_step |-> "content_creation_failed",
                  campaign_content |-> None])

\* except Exception as e
content_creator_except(state, e) ==
    Merge(state, [error |-> Str(<<"Content creation failed: ", e>>),
                  current_step |-> "content_creation_failed"])

\* a variant that keeps the ideas when the copies do not validate
content_creator_create_partial(state, outcome) ==
    LET parsed == IF outcome.ok THEN json_loads(StripCodeFence(outcome.value)) ELSE JsonError
        is_object == parsed.ok /\ parsed.kind = "object"
        campaign_ideas == IF is_object
                          THEN ConstructList(CampaignIdea, parsed.dict, "campaign_ideas")
                          ELSE Raised("JSONDecodeError")
        copies == IF is_object THEN ConstructList(Copy, parsed.dict, "copies")
                  ELSE Raised("JSONDecodeError")
    IN  IF campaign_ideas.ok
        THEN Merge(state, [campaign_content |->
                               [campaign_ideas |-> campaign_ideas.value,
                                copies |-> IF copies.ok THEN copies.value ELSE <<>>],
                           current_step |-> "content_creation_completed"])
        ELSE content_creator_except(state, IF outcome.ok THEN campaign_ideas.value
                                           ELSE outcome.value)

\* a variant that reports failure when an earlier stage left an error
content_creator_create_error_aware(state, outcome) ==
    LET campaign_content == IF outcome.ok THEN ParseCampaignContent(outcome.value) ELSE outcome
    IN  IF campaign_content.ok
        THEN Merge(state, [campaign_content |-> campaign_content.value,
                           current_step |-> IF TruthyStr(Get(state, "error"))
                                            THEN "content_creation_failed"
                                            ELSE "content_creation_completed"])
        ELSE content_creator_except(state, campaign_content.value)

content_creator_create(state, outcome) ==
    LET campaign_content == IF outcome.ok THEN ParseCampaignContent(outcome.value) ELSE outcome
    IN  IF campaign_content.ok
        THEN Merge(state, [campaign_content |-> campaign_content.value,
                           current_step |-> "content_creation_completed"])
        ELSE content_creator_except(state, campaign_content.value)

\* ------------------------------------------------------------------------
\* Input validation and rendering (utils/helpers.py, main.py)
\* ------------------------------------------------------------------------
\* Python values for safe_get: a dict with its items, or anything else
PyDict(items) == [kind |-> "dict", items |-> items]

PyLeaf(v) == [kind |-> "leaf", v |-> v]

\* safe_get(dictionary, *keys, default=default): the loop from result on
RECURSIVE safe_get_loop(_, _, _)
safe_get_loop(result, keys, default) ==
    IF keys = <<>> THEN result
    ELSE IF result.kind = "dict"
    THEN safe_get_loop(IF Head(keys) \in DOMAIN result.items
                       THEN result.items[Head(keys)]
                       ELSE default,
                       Tail(keys), default)
    ELSE default

safe_get(dictionary, keys, default) == safe_get_loop(dictionary, keys, default)

\* s[:k], for k of either sign
SliceTo(s, k) == IF k >= 0 THEN Take(s, k) ELSE DropLast(s, 0 - k)

DefaultTruncateLength == 200

truncate_text(text, max_length, suffix) ==
    IF Len(text) <= max_length THEN text
    ELSE SliceTo(text, max_length - Len(suffix)) \o suffix

MinDescriptionLength == 50

\* a variant that tests the raw strings only
validate_input_unstripped(company_domain, industry, project_description) ==
    IF company_domain = <<>>
    THEN [is_valid |-> FALSE, error_msg |-> <<"Company domain is required">>]
    ELSE IF industry = <<>>
    THEN [is_valid |-> FALSE, error_msg |-> <<"Industry is required">>]
    ELSE IF project_description = <<>>
    THEN [is_valid |-> FALSE, error_msg |-> <<"Project description is required">>]
    ELSE IF Len(project_description) < MinDescriptionLength
    THEN [is_valid |-> FALSE,
          error_msg |-> <<"Project description should be at least 50 characters">>]
    ELSE [is_valid |-> TRUE, error_msg |-> <<>>]

\* a variant that checks the description before the domain and the industry
validate_input_description_first(company_domain, industry, project_description) ==
    IF project_description = <<>> \/ Strip(project_description) = <<>>
    THEN [is_valid |-> FALSE, error_msg |-> <<"Project description is required">>]
    ELSE IF Len(project_description) < MinDescriptionLength
    THEN [is_valid |-> FALSE,
          error_msg |-> <<"Project description should be at least 50 characters">>]
    ELSE IF company_domain = <<>> \/ Strip(company_domain) = <<>>
    THEN [is_valid |-> FALSE, error_msg |-> <<"Company domain is required">>]
    ELSE IF industry = <<>> \/ Strip(industry) = <<>>
    THEN [is_valid |-> FALSE, error_msg |-> <<"Industry is required">>]
    ELSE [is_valid |-> TRUE, error_msg |-> <<>>]

validate_input(company_domain, industry, project_description) ==
    IF company_domain = <<>> \/ Strip(company_domain) = <<>>
    THEN [is_valid |-> FALSE, error_msg |-> <<"Company domain is required">>]
    ELSE IF industry = <<>> \/ Strip(industry) = <<>>
    THEN [is_valid |-> FALSE, error_msg |-> <<"Industry is required">>]
    ELSE IF project_description = <<>> \/ Strip(project_description) = <<>>
    THEN [is_valid |-> FALSE, error_msg |-> <<"Project description is required">>]
    ELSE IF Len(project_description) < MinDescriptionLength
    THEN [is_valid |-> FALSE,
          error_msg |-> <<"Project description should be at least 50 characters">>]
    ELSE [is_valid |-> TRUE, error_msg |-> <<>>]

initial_state(company_domain, industry, project_description, target_market) ==
    [company_domain |-> company_domain,
     industry |-> industry,
     project_description |-> project_description,
     target_market |-> target_market,
     market_research |-> None,
     trend_analysis |-> None,
     marketing_strategy |-> None,
     campaign_content |-> None,
     current_step |-> "initialized",
     error |-> None]

\* zip(a, b)
\* a variant that pairs up to the longer list, None standing in for the
\* missing partner
ZipLongest(a, b) ==
    [i \in 1..(IF Len(a) > Len(b) THEN Len(a) ELSE Len(b)) |->
        <<IF i <= Len(a) THEN a[i] ELSE None, IF i <= Len(b) THEN b[i] ELSE None>>]

Zip(a, b) == [i \in 1..Min(Len(a), Len(b)) |-> <<a[i], b[i]>>]

\* what the four tabs show; None for a tab left empty
display_results(result) ==
    [market_research |-> Get(result, "market_research"),
     trend_analysis |-> Get(result, "trend_analysis"),
     marketing_strategy |-> Get(result, "marketing_strategy"),
     campaigns |-> IF Truthy(Get(result, "campaign_content"))
                   THEN [pairs |-> Zip(result.campaign_content.campaign_ideas,
                                       result.campaign_content.copies)]
                   ELSE None]

\* the end of every script run: results are shown when one is stored
Rendered(session_state) ==
    IF "analysis_result" \in DOMAIN session_state
    THEN display_results(session_state.analysis_result)
    ELSE None

\* ------------------------------------------------------------------------
\* Workflow graph (graph/workflow.py)
\* ------------------------------------------------------------------------
END == "END"

Nodes == {"market_research", "trend_analysis", "strategy_planning", "content_creation"}

EntryPoint == "market_research"

\* a variant whose first edge leaves out trend analysis
EdgesSkipping ==
    {<<"market_research", "strategy_planning">>, <<"trend_analysis", "strategy_planning">>,
     <<"strategy_planning", "content_creation">>, <<"content_creation", END>>}

Edges ==
    {<<"market_research", "trend_analysis">>,
     <<"trend_analysis", "strategy_planning">>,
     <<"strategy_planning", "content_creation">>,
     <<"content_creation", END>>}

\* ------------------------------------------------------------------------
\* The environment: what the user types, what the services answer
\* ------------------------------------------------------------------------
Domains == {<<>>, <<" ">>, <<"a", "c", "m", "e", ".", "i", "o">>, <<"h", "t", "t", "p", "s", ":", "/", "/", "a", "c", "m", "e", ".", "i", "o">>}

\* the industry comes from a select box and is never blank
Industries == {<<"S", "a", "a", "S">>}

Descriptions ==
    {<<>>, Rep(" ", MinDescriptionLength), Rep("x", MinDescriptionLength - 1),
     Rep("x", MinDescriptionLength)}

TargetMarkets == {<<>>}

SearchResponses ==
    {[ok |-> FALSE, data |-> <<>>],
     [ok |-> TRUE, data |-> <<>>],
     [ok |-> TRUE, data |-> [organic |-> <<[title |-> <<"T1">>, snippet |-> <<"N1">>,
                                           link |-> <<"L1">>],
                                          [title |-> <<"T2">>]>>]]}

ScrapeResponses ==
    {[ok |-> FALSE, text |-> <<>>],
     [ok |-> TRUE, text |-> <<>>],
     [ok |-> TRUE, text |-> <<" ", "A", "c", "m", "e", " ", " ", "b", "u", "i", "l", "d", "s", " ", "\n", "\n", " ", "r", "o", "b", "o", "t", "s", " ">>]}

Obj(members) == <<"{">> \o members \o <<"}">>

MarketResearchObjects ==
    {Obj(<<"customer_profile", "D1", "competitors", "[", "D1", "D2", "]",
           "target_audience", "D2", "market_positioning", "S1">>),
     Obj(<<"notes", "S1", "market_positioning", "S2", "customer_profile", "D2",
           "competitors", "[", "]", "target_audience", "D1">>),
     Obj(<<"customer_profile", "D1", "competitors", "[", "D1", "]",
           "target_audience", "D2">>),
     Obj(<<"customer_profile", "D1", "competitors", "[", "D1", "]",
           "target_audience", "D2", "market_positioning", "D1">>)}

TrendAnalysisObjects ==
    {Obj(<<"market_trends", "[", "S1", "S2", "]", "tech_trends", "[", "S1", "]",
           "consumer_trends", "[", "S2", "]", "trend_impact", "S1",
           "opportunities", "[", "S1", "]">>),
     Obj(<<"market_trends", "[", "S1", "]", "tech_trends", "[", "S1", "]",
           "consumer_trends", "[", "S2", "]", "trend_impact", "S1">>),
     Obj(<<"market_trends", "S1", "tech_trends", "[", "S1", "]",
           "consumer_trends", "[", "S2", "]", "trend_impact", "S1",
           "opportunities", "[", "S1", "]">>)}

MarketingStrategyObjects ==
    {Obj(<<"name", "S1", "goals", "[", "S1", "S2", "]", "tactics", "[", "S1", "]",
           "channels", "[", "S2", "]", "KPIs", "[", "S1", "]">>),
     Obj(<<"name", "S1", "goals", "[", "S1", "]", "tactics", "[", "S1", "]",
           "channels", "[", "S2", "]">>),
     Obj(<<"name", "S1", "goals", "[", "D1", "]", "tactics", "[", "S1", "]",
           "channels", "[", "S2", "]", "KPIs", "[", "S1", "]">>)}

IdeaList(n) == [i \in 1..n |-> IF i % 2 = 1 THEN "IDEA1" ELSE "IDEA2"]

CopyList(n) == [i \in 1..n |-> IF i % 2 = 1 THEN "COPY1" ELSE "COPY2"]

ContentObj(ideas, copies) ==
    Obj(<<"campaign_ideas", "[">> \o ideas \o <<"]", "copies", "[">> \o copies \o <<"]">>)

CampaignContentObjects ==
    {ContentObj(IdeaList(i), CopyList(c)) : i \in 0..MaxItems, c \in 0..MaxItems}
    \cup {ContentObj(IdeaList(1), <<"COPY1", "COPY_NO_BODY">>),
          ContentObj(<<"IDEA_NO_CHANNEL">>, CopyList(1)),
          Obj(<<"campaign_ideas", "[", "IDEA1", "]">>),
          Obj(<<"copies", "[", "COPY1", "]">>)}

Objects(stage) ==
    CASE stage = "market_research" -> MarketResearchObjects
      [] stage = "trend_analysis" -> TrendAnalysisObjects
      [] stage = "strategy_planning" -> MarketingStrategyObjects
      [] stage = "content_creation" -> CampaignContentObjects

\* texts that are not a JSON object
NotObjects == {<<>>, <<"{", "name">>, <<"[", "]">>, <<"S1">>, <<"j", "s", "o", "n">>}

Pads == {Rep(w, n) : w \in Whitespace, n \in 0..MaxPad}

\* J inside code-fence markers, with optional whitespace around J and around
\* the whole text
Wrappings(J) ==
    {p[1] \o open \o p[2] \o J \o p[3] \o Fence \o p[4] :
        open \in {FenceJson, Fence},
        p \in {q \in Pads \X Pads \X Pads \X Pads :
                  Len(q[1]) + Len(q[2]) + Len(q[3]) + Len(q[4]) <= MaxPad}}

\* one object of each stage that builds a valid record
Sample(stage) ==
    CASE stage = "market_research" ->
            Obj(<<"customer_profile", "D1", "competitors", "[", "D1", "D2", "]",
                  "target_audience", "D2", "market_positioning", "S1">>)
      [] stage = "trend_analysis" ->
            Obj(<<"market_trends", "[", "S1", "S2", "]", "tech_trends", "[", "S1", "]",
                  "consumer_trends", "[", "S2", "]", "trend_impact", "S1",
                  "opportunities", "[", "S1", "]">>)
      [] stage = "strategy_planning" ->
            Obj(<<"name", "S1", "goals", "[", "S1", "S2", "]", "tactics", "[", "S1", "]",
                  "channels", "[", "S2", "]", "KPIs", "[", "S1", "]">>)
      [] stage = "content_creation" -> ContentObj(IdeaList(1), CopyList(1))

\* the objects tried inside code fences
Fenced(stage) ==
    IF stage = "content_creation"
    THEN {Sample(stage), ContentObj(IdeaList(MaxItems), CopyList(0)),
          ContentObj(IdeaList(1), <<"COPY1", "COPY_NO_BODY">>),
          Obj(<<"campaign_ideas", "[", "IDEA1", "]">>)}
    ELSE Objects(stage)

\* the objects tried inside a run of the application
AppObjects(stage) ==
    CASE stage = "market_research" ->
            {Sample(stage),
             Obj(<<"customer_profile", "D1", "competitors", "[", "D1", "]",
                   "target_audience", "D2">>)}
      [] stage = "trend_analysis" ->
            {Sample(stage),
             Obj(<<"market_trends", "S1", "tech_trends", "[", "S1", "]",
                   "consumer_trends", "[", "S2", "]", "trend_impact", "S1",
                   "opportunities", "[", "S1", "]">>)}
      [] stage = "strategy_planning" ->
            {Sample(stage),
             Obj(<<"name", "S1", "goals", "[", "S1", "]", "tactics", "[", "S1", "]",
                   "channels", "[", "S2", "]">>)}
      [] stage = "content_creation" ->
            {Sample(stage),
             ContentObj(IdeaList(MaxItems), CopyList(1)),
             ContentObj(IdeaList(1), CopyList(MaxItems)),
             ContentObj(IdeaList(1), <<"COPY1", "COPY_NO_BODY">>),
             Obj(<<"campaign_ideas", "[", "IDEA1", "]">>)}

\* the contents a model may return: inside the application a few of each
\* kind, for a stage invoked on its own every object and every wrapping
Contents(stage, caller) ==
    IF caller = "direct"
    THEN Objects(stage) \cup NotObjects \cup UNION {Wrappings(J) : J \in Fenced(stage)}
    ELSE AppObjects(stage)
         \cup {<<"{", "name">>, FenceJson \o <<"\n">> \o Sample(stage) \o <<"\n">> \o Fence}

\* the responses that hold, bare or inside code fences, a JSON object with
\* every key of the stage's record, each of the declared type
WellFormedObjects(stage) ==
    CASE stage = "market_research" ->
            {Sample(stage),
             Obj(<<"notes", "S1", "market_positioning", "S2", "customer_profile", "D2",
                   "competitors", "[", "]", "target_audience", "D1">>)}
      [] stage = "trend_analysis" -> {Sample(stage)}
      [] stage = "strategy_planning" -> {Sample(stage)}
      [] stage = "content_creation" ->
            {ContentObj(IdeaList(i), CopyList(c)) : i \in 0..MaxItems, c \in 0..MaxItems}

WellFormed ==
    [stage \in Nodes |->
        [caller \in {"running", "direct"} |->
            {Returned(content) :
                content \in (WellFormedObjects(stage)
                             \cup UNION {Wrappings(J) : J \in WellFormedObjects(stage)})
                            \cap Contents(stage, caller)}]]

\* what chain.invoke can end with, per stage and caller
Outcomes ==
    [stage \in Nodes |->
        [caller \in {"running", "direct"} |->
            {Raised("APIError")}
            \cup {Returned(content) : content \in Contents(stage, caller)}]]

ModelOutcomes(stage, caller) == Outcomes[stage][caller]

\* ------------------------------------------------------------------------
\* State
\* ------------------------------------------------------------------------
VARIABLES
    tool_call,      \* the adapter method called on its own and its arguments
    tool_result,    \* what that call returned or raised, None before it ends
    use_serper,     \* WebSearchTool.use_serper, fixed when the tool is built
    session,        \* st.session_state (the analysis_result key)
    shown,          \* st.error / st.success messages of the current script run
    rendered,       \* what display_results put on the page, None when nothing
    main_pc,        \* "idle": waiting for a button, "running": inside
                    \* run_analysis, "direct": a stage function called on its
                    \* own, "tool": an adapter method called on its own
    runs,           \* Start Analysis presses so far
    node,           \* the workflow node being executed, END after the last
    step,           \* position inside the node function
    state,          \* the GraphState handed to / returned by the node
    locals,         \* adapter results held by the running stage
    inflight,       \* external requests that have not returned yet
    prompt,         \* the variables of the model request in flight
    entry,          \* the state the last finished stage was called with
    answer,         \* what the last external request produced, None while
                    \* it is in flight
    pressed,        \* the form values of the last Start Analysis press
    executed,       \* nodes invoked in this run, in order
    calls,          \* external requests of this run, in order
    well_formed     \* nodes whose model request of this run was answered
                    \* with a well-formed response

vars == <<use_serper, session, shown, rendered, main_pc, runs, node, step, state, locals,
          inflight, prompt, entry, answer, pressed, executed, calls, well_formed,
          tool_call, tool_result>>

\* nothing assigned yet
NoLocals ==
    [competitor_results |-> <<>>, audience_results |-> <<>>,
     company_content |-> None, trend_results |-> <<>>]

Init ==
    /\ tool_call = None
    /\ tool_result = None
    /\ use_serper \in BOOLEAN
    /\ session = <<>>
    /\ shown = <<>>
    /\ rendered = None
    /\ main_pc = "idle"
    /\ runs = 0
    /\ node = "none"
    /\ step = "none"
    /\ state = None
    /\ locals = NoLocals
    /\ inflight = {}
    /\ prompt = None
    /\ entry = None
    /\ answer = None
    /\ pressed = None
    /\ executed = <<>>
    /\ calls = <<>>
    /\ well_formed = {}

\* ------------------------------------------------------------------------
\* Front end (main.py)
\* ------------------------------------------------------------------------
\* a variant that drops the stored result when the input is rejected
StartAnalysisClearing ==
    /\ main_pc = "idle"
    /\ runs < MaxRuns
    /\ \E company_domain \in Domains, industry \in Industries,
          project_description \in Descriptions, target_market \in TargetMarkets :
          LET v == validate_input(company_domain, industry, project_description)
          IN  /\ runs' = runs + 1
              /\ pressed' = [company_domain |-> company_domain, industry |-> industry,
                             project_description |-> project_description,
                             target_market |-> target_market]
              /\ executed' = <<>>
              /\ calls' = <<>>
              /\ well_formed' = {}
              /\ entry' = None
              /\ answer' = None
              /\ IF ~v.is_valid
                 THEN /\ shown' = <<[kind |-> "error", text |-> v.error_msg]>>
                      /\ session' = <<>>
                      /\ rendered' = Rendered(session')
                      /\ UNCHANGED <<main_pc, node, step, state>>
                 ELSE /\ shown' = <<>>
                      /\ rendered' = None
                      /\ main_pc' = "running"
                      /\ state' = initial_state(company_domain, industry,
                                                project_description, target_market)
                      /\ node' = "START"
                      /\ step' = "returned"
                      /\ UNCHANGED session
    /\ UNCHANGED <<tool_call, tool_result, use_serper, locals, inflight, prompt>>

\* Start Analysis pressed: validate, build the initial state, enter the workflow
StartAnalysis ==
    /\ main_pc = "idle"
    /\ runs < MaxRuns
    /\ \E company_domain \in Domains, industry \in Industries,
          project_description \in Descriptions, target_market \in TargetMarkets :
          LET v == validate_input(company_domain, industry, project_description)
          IN  /\ runs' = runs + 1
              /\ pressed' = [company_domain |-> company_domain, industry |-> industry,
                             project_description |-> project_description,
                             target_market |-> target_market]
              /\ executed' = <<>>
              /\ calls' = <<>>
              /\ well_formed' = {}
              /\ entry' = None
              /\ answer' = None
              /\ IF ~v.is_valid
                 THEN /\ shown' = <<[kind |-> "error", text |-> v.error_msg]>>
                      /\ rendered' = Rendered(session)
                      /\ UNCHANGED <<main_pc, node, step, state>>
                 ELSE /\ shown' = <<>>
                      /\ rendered' = None
                      /\ main_pc' = "running"
                      /\ state' = initial_state(company_domain, industry,
                                                project_description, target_market)
                      /\ node' = "START"
                      /\ step' = "returned"
    /\ UNCHANGED <<tool_call, tool_result, use_serper, session, locals, inflight, prompt>>

\* Clear pressed
Clear ==
    /\ main_pc = "idle"
    /\ session' = <<>>
    /\ shown' = <<>>
    /\ rendered' = None
    /\ UNCHANGED <<tool_call, tool_result, use_serper, main_pc, runs, node, step, state, locals, inflight, prompt,
                   entry, answer, pressed, executed, calls, well_formed>>

\* a variant that stores the final state whether or not it carries an error
FinishAnalysisStoringFailed ==
    /\ main_pc = "running"
    /\ node = END
    /\ shown' = IF TruthyStr(Get(state, "error"))
                THEN <<[kind |-> "error",
                        text |-> <<"Analysis failed: ">> \o state.error.text]>>
                ELSE <<[kind |-> "success", text |-> <<"Analysis completed!">>]>>
    /\ session' = Merge(session, [analysis_result |-> state])
    /\ rendered' = Rendered(session')
    /\ main_pc' = "idle"
    /\ node' = "none"
    /\ step' = "none"
    /\ state' = None
    /\ executed' = <<>>
    /\ calls' = <<>>
    /\ well_formed' = {}
    /\ UNCHANGED <<tool_call, tool_result, use_serper, runs, locals, inflight, prompt,
                   entry, answer, pressed>>

\* marketing_workflow.invoke has returned: run_analysis checks the error,
\* main stores and renders the result
FinishAnalysis ==
    /\ main_pc = "running"
    /\ node = END
    /\ LET result == IF TruthyStr(Get(state, "error")) THEN None ELSE state
       IN  /\ shown' = IF TruthyStr(Get(state, "error"))
                       THEN <<[kind |-> "error",
                               text |-> <<"Analysis failed: ">> \o state.error.text]>>
                       ELSE <<[kind |-> "success", text |-> <<"Analysis completed!">>]>>
           /\ session' = IF Truthy(result)
                         THEN Merge(session, [analysis_result |-> result])
                         ELSE session
           /\ rendered' = Rendered(session')
    /\ main_pc' = "idle"
    /\ node' = "none"
    /\ step' = "none"
    /\ state' = None
    /\ executed' = <<>>
    /\ calls' = <<>>
    /\ well_formed' = {}
    /\ UNCHANGED <<tool_call, tool_result, use_serper, runs, locals, inflight, prompt, entry, answer, pressed>>

\* what marketing_workflow.invoke can raise: the node functions catch their
\* own exceptions, the graph runtime around them need not
InvokeErrors == {"GraphRecursionError"}

\* a variant that keeps the state reached when the exception came
run_analysis_except_storing ==
    /\ main_pc = "running"
    /\ step = "returned"
    /\ \E e \in InvokeErrors :
          shown' = <<[kind |-> "error",
                      text |-> <<"An error occurred during analysis: ", e>>]>>
    /\ session' = Merge(session, [analysis_result |-> state])
    /\ rendered' = Rendered(session')
    /\ main_pc' = "idle"
    /\ node' = "none"
    /\ step' = "none"
    /\ state' = None
    /\ executed' = <<>>
    /\ calls' = <<>>
    /\ well_formed' = {}
    /\ UNCHANGED <<tool_call, tool_result, use_serper, runs, locals, inflight, prompt,
                   entry, answer, pressed>>

\* marketing_workflow.invoke raises between two nodes: run_analysis shows the
\* generic error and returns None, main stores nothing and goes on to render
run_analysis_except ==
    /\ main_pc = "running"
    /\ step = "returned"
    /\ \E e \in InvokeErrors :
          shown' = <<[kind |-> "error",
                      text |-> <<"An error occurred during analysis: ", e>>]>>
    /\ session' = session
    /\ rendered' = Rendered(session')
    /\ main_pc' = "idle"
    /\ node' = "none"
    /\ step' = "none"
    /\ state' = None
    /\ executed' = <<>>
    /\ calls' = <<>>
    /\ well_formed' = {}
    /\ UNCHANGED <<tool_call, tool_result, use_serper, runs, locals, inflight, prompt,
                   entry, answer, pressed>>

\* ------------------------------------------------------------------------
\* Orchestrator (graph/workflow.py): follow the edge out of a finished node
\* ------------------------------------------------------------------------
\* a variant with a conditional edge: a node that returned an error ends the run
WorkflowStepShortCircuit ==
    /\ main_pc = "running"
    /\ step = "returned"
    /\ \E next \in Nodes \cup {END} :
          /\ \/ node = "START" /\ next = EntryPoint
             \/ node # "START" /\ TruthyStr(Get(state, "error")) /\ next = END
             \/ ~TruthyStr(Get(state, "error")) /\ <<node, next>> \in Edges
          /\ node' = next
          /\ step' = IF next = END THEN "none" ELSE "entry"
          /\ executed' = IF next = END THEN executed ELSE Append(executed, next)
    /\ entry' = None
    /\ answer' = None
    /\ UNCHANGED <<tool_call, tool_result, use_serper, session, shown, rendered, main_pc, runs, state, locals,
                   inflight, prompt, pressed, calls, well_formed>>

WorkflowStep ==
    /\ main_pc = "running"
    /\ step = "returned"
    /\ \E next \in Nodes \cup {END} :
          /\ \/ node = "START" /\ next = EntryPoint
             \/ <<node, next>> \in Edges
          /\ node' = next
          /\ step' = IF next = END THEN "none" ELSE "entry"
          /\ executed' = IF next = END THEN executed ELSE Append(executed, next)
    /\ entry' = None
    /\ answer' = None
    /\ UNCHANGED <<tool_call, tool_result, use_serper, session, shown, rendered, main_pc, runs, state, locals,
                   inflight, prompt, pressed, calls, well_formed>>

\* ------------------------------------------------------------------------
\* Stage agents, one external request at a time
\* ------------------------------------------------------------------------
\* search(query, num_results); the response is looked at only on the API path
search(query, num_results, response) ==
    IF use_serper THEN search_with_serper(query, num_results, response)
    ELSE Returned(simulated_search(query, num_results))

scrape_company_info(domain, response) == scrape(CompanyUrl(domain), DefaultMaxLength, response)

StageExcept(stage, st, e) ==
    CASE stage = "market_research" -> market_researcher_except(st, e)
      [] stage = "trend_analysis" -> trend_analyzer_except(st, e)
      [] stage = "strategy_planning" -> strategy_planner_except(st, e)
      [] stage = "content_creation" -> content_creator_except(st, e)

\* the node function of stage, from the point where chain.invoke has ended
\* with outcome
StageResult(stage, st, outcome) ==
    CASE stage = "market_research" -> market_researcher_analyze(st, outcome)
      [] stage = "trend_analysis" -> trend_analyzer_analyze(st, outcome)
      [] stage = "strategy_planning" -> strategy_planner_plan(st, outcome)
      [] stage = "content_creation" -> content_creator_create(st, outcome)

\* a variant in which the node function updates the state it was handed
ReturnUpdatingInPlace(new_state) ==
    /\ state' = new_state
    /\ entry' = new_state
    /\ step' = "returned"
    /\ locals' = NoLocals
    /\ prompt' = None

\* the node function returns new_state
Return(new_state) ==
    /\ state' = new_state
    /\ entry' = state
    /\ step' = "returned"
    /\ locals' = NoLocals
    /\ prompt' = None

Request(kind, target) ==
    /\ inflight' = inflight \cup {kind}
    /\ calls' = Append(calls, [kind |-> kind, target |-> target])
    /\ answer' = None

Answered(kind, response) ==
    /\ inflight' = inflight \ {kind}
    /\ answer' = response
    /\ UNCHANGED calls

\* an adapter call ended with r: store its value and go on, or land in the
\* except clause when it raised
Hold(field, r, next) ==
    IF ~r.ok
    THEN Return(StageExcept(node, state, r.value))
    ELSE /\ locals' = [locals EXCEPT ![field] = r.value]
         /\ step' = next
         /\ UNCHANGED <<state, entry, prompt>>

\* web_search_tool.search_*(...) is called at position at
SearchCall(at, query, field, next) ==
    /\ main_pc \in {"running", "direct"}
    /\ step = at
    /\ inflight = {}
    /\ IF use_serper
       THEN /\ Request("search", query)
            /\ step' = at \o "_wait"
            /\ UNCHANGED <<state, entry, prompt, locals>>
       ELSE /\ Hold(field, search(query, NumResults, [ok |-> FALSE, data |-> <<>>]), next)
            /\ UNCHANGED <<inflight, calls, answer>>
    /\ UNCHANGED <<tool_call, tool_result, use_serper, session, shown, rendered, main_pc, runs, node, pressed,
                   executed, well_formed>>

\* a variant that sends a failed search request once more
SearchReturnRetrying(at, query, field, next) ==
    /\ main_pc \in {"running", "direct"}
    /\ step = at \o "_wait"
    /\ \E response \in SearchResponses :
          IF ~response.ok /\ Len(SelectSeq(calls, LAMBDA c : c.target = query)) < 2
          THEN /\ calls' = Append(calls, [kind |-> "search", target |-> query])
               /\ answer' = response
               /\ UNCHANGED <<inflight, state, entry, prompt, locals, step>>
          ELSE /\ Answered("search", response)
               /\ Hold(field, search(query, NumResults, response), next)
    /\ UNCHANGED <<tool_call, tool_result, use_serper, session, shown, rendered, main_pc,
                   runs, node, pressed, executed, well_formed>>

\* the search request returns
SearchReturn(at, query, field, next) ==
    /\ main_pc \in {"running", "direct"}
    /\ step = at \o "_wait"
    /\ \E response \in SearchResponses :
          /\ Answered("search", response)
          /\ Hold(field, search(query, NumResults, response), next)
    /\ UNCHANGED <<tool_call, tool_result, use_serper, session, shown, rendered, main_pc, runs, node, pressed,
                   executed, well_formed>>

search_competitors_call ==
    /\ node = "market_research"
    /\ SearchCall("entry",
                  CompetitorsQuery(GetOr(state, "company_domain", <<>>),
                                   GetOr(state, "industry", <<>>)),
                  "competitor_results", "audience")

search_competitors_return ==
    /\ node = "market_research"
    /\ SearchReturn("entry",
                    CompetitorsQuery(GetOr(state, "company_domain", <<>>),
                                     GetOr(state, "industry", <<>>)),
                    "competitor_results", "audience")

search_target_audience_call ==
    /\ node = "market_research"
    /\ SearchCall("audience",
                  TargetAudienceQuery(GetOr(state, "industry", <<>>),
                                      Take(GetOr(state, "project_description", <<>>), 100)),
                  "audience_results", "scrape")

search_target_audience_return ==
    /\ node = "market_research"
    /\ SearchReturn("audience",
                    TargetAudienceQuery(GetOr(state, "industry", <<>>),
                                        Take(GetOr(state, "project_description", <<>>), 100)),
                    "audience_results", "scrape")

\* a variant that requests the page without waiting for the audience search
scrape_company_info_call_concurrent ==
    /\ main_pc \in {"running", "direct"}
    /\ node = "market_research"
    /\ step \in {"audience_wait", "scrape"}
    /\ Request("scrape", CompanyUrl(GetOr(state, "company_domain", <<>>)))
    /\ step' = "scrape_wait"
    /\ UNCHANGED <<tool_call, tool_result, use_serper, session, shown, rendered, main_pc,
                   runs, node, pressed, executed, well_formed, state, entry, prompt,
                   locals>>

scrape_company_info_call ==
    /\ main_pc \in {"running", "direct"}
    /\ node = "market_research"
    /\ step = "scrape"
    /\ inflight = {}
    /\ Request("scrape", CompanyUrl(GetOr(state, "company_domain", <<>>)))
    /\ step' = "scrape_wait"
    /\ UNCHANGED <<tool_call, tool_result, use_serper, session, shown, rendered, main_pc, runs, node, pressed,
                   executed, well_formed, state, entry, prompt, locals>>

scrape_company_info_return ==
    /\ main_pc \in {"running", "direct"}
    /\ node = "market_research"
    /\ step = "scrape_wait"
    /\ \E response \in ScrapeResponses :
          /\ Answered("scrape", response)
          /\ Hold("company_content",
                  scrape_company_info(GetOr(state, "company_domain", <<>>), response), "llm")
    /\ UNCHANGED <<tool_call, tool_result, use_serper, session, shown, rendered, main_pc, runs, node, pressed,
                   executed, well_formed>>

search_market_trends_call ==
    /\ node = "trend_analysis"
    /\ SearchCall("entry", MarketTrendsQuery(GetOr(state, "industry", <<>>)),
                  "trend_results", "llm")

search_market_trends_return ==
    /\ node = "trend_analysis"
    /\ SearchReturn("entry", MarketTrendsQuery(GetOr(state, "industry", <<>>)),
                    "trend_results", "llm")

\* chain.invoke(variables) is called at position at
ModelCall(stage, at, variables) ==
    /\ main_pc \in {"running", "direct"}
    /\ node = stage
    /\ step = at
    /\ inflight = {}
    /\ Request("llm", <<stage>>)
    /\ prompt' = variables
    /\ step' = "llm_wait"
    /\ UNCHANGED <<tool_call, tool_result, use_serper, session, shown, rendered, main_pc, runs, node, pressed,
                   executed, well_formed, state, entry, locals>>

\* chain.invoke returns or raises and the stage function finishes
ModelReturn(stage) ==
    /\ main_pc \in {"running", "direct"}
    /\ node = stage
    /\ step = "llm_wait"
    /\ \E outcome \in ModelOutcomes(stage, main_pc) :
          /\ Answered("llm", outcome)
          /\ Return(StageResult(stage, state, outcome))
          /\ well_formed' = IF outcome \in WellFormed[stage][main_pc]
                            THEN well_formed \cup {stage}
                            ELSE well_formed
    /\ UNCHANGED <<tool_call, tool_result, use_serper, session, shown, rendered, main_pc, runs, node, pressed,
                   executed>>

market_researcher_invoke ==
    ModelCall("market_research", "llm",
              market_researcher_prompt(state, locals.competitor_results,
                                       locals.audience_results, locals.company_content))

market_researcher_return == ModelReturn("market_research")

trend_analyzer_invoke ==
    ModelCall("trend_analysis", "llm", trend_analyzer_prompt(state, locals.trend_results))

trend_analyzer_return == ModelReturn("trend_analysis")

strategy_planner_invoke ==
    ModelCall("strategy_planning", "entry", strategy_planner_prompt(state))

strategy_planner_return == ModelReturn("strategy_planning")

content_creator_invoke ==
    ModelCall("content_creation", "entry", content_creator_prompt(state))

content_creator_return == ModelReturn("content_creation")

StageNext ==
    \/ search_competitors_call
    \/ search_competitors_return
    \/ search_target_audience_call
    \/ search_target_audience_return
    \/ scrape_company_info_call
    \/ scrape_company_info_return
    \/ market_researcher_invoke
    \/ market_researcher_return
    \/ search_market_trends_call
    \/ search_market_trends_return
    \/ trend_analyzer_invoke
    \/ trend_analyzer_return
    \/ strategy_planner_invoke
    \/ strategy_planner_return
    \/ content_creator_invoke
    \/ content_creator_return

Next ==
    \/ StartAnalysis
    \/ Clear
    \/ WorkflowStep
    \/ FinishAnalysis
    \/ StageNext

\* the application: form, workflow, stages
Spec == Init /\ [][Next]_vars

\* the application on a graph runtime that may raise
NextRaising ==
    \/ Next
    \/ run_analysis_except

SpecRaising == Init /\ [][NextRaising]_vars

\* ------------------------------------------------------------------------
\* A stage function called on its own, on a state that may lack records
\* ------------------------------------------------------------------------
Without(st, k) == [x \in DOMAIN st \ {k} |-> st[x]]

SampleRecord(stage) ==
    CASE stage = "market_research" -> ParseRecord(MarketResearch, Sample(stage)).value
      [] stage = "trend_analysis" -> ParseRecord(TrendAnalysis, Sample(stage)).value
      [] stage = "strategy_planning" -> ParseRecord(MarketingStrategy, Sample(stage)).value
      [] stage = "content_creation" -> ParseCampaignContent(Sample(stage)).value

ResultField(stage) ==
    CASE stage = "market_research" -> "market_research"
      [] stage = "trend_analysis" -> "trend_analysis"
      [] stage = "strategy_planning" -> "marketing_strategy"
      [] stage = "content_creation" -> "campaign_content"

\* the records a stage reads from the state
Upstream(stage) ==
    CASE stage = "market_research" -> {}
      [] stage = "trend_analysis" -> {"market_research"}
      [] stage = "strategy_planning" -> {"market_research", "trend_analysis"}
      [] stage = "content_creation" -> {"marketing_strategy", "market_research"}

\* st with the record of stage from absent, null or populated
WithRecord(st, from, how) ==
    CASE how = "absent" -> Without(st, ResultField(from))
      [] how = "null" -> st
      [] how = "set" -> Merge(st, ResultField(from) :> SampleRecord(from))

RECURSIVE WithRecords(_, _, _)
WithRecords(st, stages, how) ==
    IF stages = <<>> THEN st
    ELSE WithRecords(WithRecord(st, Head(stages), how[Head(stages)]), Tail(stages), how)

StageOrder == <<"market_research", "trend_analysis", "strategy_planning", "content_creation">>

EntryStates(stage) ==
    {Merge(WithRecords(initial_state(CHOOSE d \in Domains : Strip(d) # <<>>,
                                     CHOOSE i \in Industries : TRUE,
                                     Rep("x", MinDescriptionLength),
                                     CHOOSE t \in TargetMarkets : TRUE),
                       StageOrder, how),
           [error |-> err]) :
        how \in {h \in [Nodes -> {"absent", "null", "set"}] :
                    \A n \in Nodes :
                       /\ ResultField(n) \notin Upstream(stage) => h[n] # "absent"
                       /\ (ResultField(n) \notin Upstream(stage) /\ n # stage) => h[n] = "null"},
        err \in {None, Str(<<"Earlier stage failed: ", "APIError">>)}}

InitStage ==
    /\ tool_call = None
    /\ tool_result = None
    /\ use_serper \in BOOLEAN
    /\ session = <<>>
    /\ shown = <<>>
    /\ rendered = None
    /\ main_pc = "direct"
    /\ runs = 0
    /\ node \in Nodes
    /\ step = "entry"
    /\ state \in EntryStates(node)
    /\ locals = NoLocals
    /\ inflight = {}
    /\ prompt = None
    /\ entry = None
    /\ answer = None
    /\ pressed = None
    /\ executed = <<node>>
    /\ calls = <<>>
    /\ well_formed = {}

SpecStage == InitStage /\ [][StageNext]_vars

\* ------------------------------------------------------------------------
\* An adapter method called on its own (tools/web_search.py,
\* tools/web_scraper.py), with any query, result count, url and max_length
\* ------------------------------------------------------------------------
MaxCount == 4

Counts == 0..MaxCount

Queries == {<<"a", "i">>, <<"a", "i", " ", "c", "r", "m">>}

Urls == {CompanyUrl(domain) : domain \in Domains}

MaxLengths == {0, 5, 17, 18, DefaultMaxLength}

\* validate_input called on its own: the industry may be blank too, and the
\* description may mix blanks and text
DirectIndustries == Industries \cup {<<>>, <<" ", " ">>}

DirectDescriptions ==
    Descriptions
    \cup {Rep(" ", MinDescriptionLength - 1) \o <<"x">>,
          Rep("x", MinDescriptionLength - 2) \o <<" ", " ">>,
          <<" ">> \o Rep("x", MinDescriptionLength - 3) \o <<" ">>}

TruncateTexts == {<<>>, <<"a", "b">>, <<"a", "b", "c", "d", "e", "f">>}

TruncateLengths == {0, 1, 2, 3, 4, 6, DefaultTruncateLength}

Suffixes == {<<>>, <<"~">>, Ellipsis}

\* scrape_company_info called on its own: also a bare domain whose name
\* starts with the letters http
DirectDomains == Domains \cup {<<"h", "t", "t", "p", "b", "i", "n", ".", "o", "r", "g">>}

Dictionaries ==
    {PyDict(<<>>),
     PyDict([a |-> PyLeaf("1")]),
     PyDict([a |-> PyDict([b |-> PyLeaf("1")])]),
     PyDict([a |-> PyDict([c |-> PyLeaf("1")]), b |-> PyLeaf("3")])}

MaxKeys == 2

KeyPaths == UNION {[1..n -> {"a", "b"}] : n \in 0..MaxKeys}

Defaults == {PyLeaf("None"), PyLeaf("0"), PyDict(<<>>), PyDict([b |-> PyLeaf("2")])}

ToolCalls ==
    {[method |-> "search", query |-> query, num_results |-> num_results] :
        query \in Queries, num_results \in Counts}
    \cup {[method |-> "scrape", url |-> url, max_length |-> max_length] :
             url \in Urls, max_length \in MaxLengths}
    \cup {[method |-> "validate_input", company_domain |-> company_domain,
           industry |-> industry, project_description |-> project_description] :
             company_domain \in Domains, industry \in DirectIndustries,
             project_description \in DirectDescriptions}
    \cup {[method |-> "truncate_text", text |-> text, max_length |-> max_length,
           suffix |-> suffix] :
             text \in TruncateTexts, max_length \in TruncateLengths, suffix \in Suffixes}
    \cup {[method |-> "scrape_company_info", domain |-> domain] : domain \in DirectDomains}
    \cup {[method |-> "safe_get", dictionary |-> dictionary, keys |-> keys,
           default |-> default] :
             dictionary \in Dictionaries, keys \in KeyPaths, default \in Defaults}

InitTools ==
    /\ tool_call \in ToolCalls
    /\ tool_result = None
    /\ use_serper \in BOOLEAN
    /\ session = <<>>
    /\ shown = <<>>
    /\ rendered = None
    /\ main_pc = "tool"
    /\ runs = 0
    /\ node = "none"
    /\ step = "entry"
    /\ state = None
    /\ locals = NoLocals
    /\ inflight = {}
    /\ prompt = None
    /\ entry = None
    /\ answer = None
    /\ pressed = None
    /\ executed = <<>>
    /\ calls = <<>>
    /\ well_formed = {}

\* what the search API can answer a direct call with: the application's
\* responses and one with a repeated, unsorted result list
DirectSearchResponses ==
    SearchResponses
    \cup {[ok |-> TRUE,
           data |-> [organic |-> <<[title |-> <<"T2">>, snippet |-> <<"N2">>,
                                    link |-> <<"L2">>],
                                   [title |-> <<"T1">>, snippet |-> <<"N1">>,
                                    link |-> <<"L1">>, position |-> <<"2">>],
                                   [title |-> <<"T2">>, snippet |-> <<"N2">>,
                                    link |-> <<"L2">>]>>]]}

\* a variant that posts to the search API whether or not a key was configured
search_call_always_posting ==
    /\ main_pc = "tool"
    /\ step = "entry"
    /\ tool_call.method = "search"
    /\ inflight = {}
    /\ Request("search", tool_call.query)
    /\ step' = "wait"
    /\ UNCHANGED <<tool_call, tool_result, use_serper, session, shown, rendered, main_pc,
                   runs, node, state, locals, prompt, entry, pressed, executed,
                   well_formed>>

\* search(query, num_results) is called: with a key the request is posted,
\* without one the simulated results are returned at once
search_call ==
    /\ main_pc = "tool"
    /\ step = "entry"
    /\ tool_call.method = "search"
    /\ inflight = {}
    /\ IF use_serper
       THEN /\ Request("search", tool_call.query)
            /\ step' = "wait"
            /\ UNCHANGED tool_result
       ELSE /\ tool_result' = search(tool_call.query, tool_call.num_results,
                                     [ok |-> FALSE, data |-> <<>>])
            /\ step' = "done"
            /\ UNCHANGED <<inflight, calls, answer>>
    /\ UNCHANGED <<tool_call, use_serper, session, shown, rendered, main_pc, runs, node,
                   state, locals, prompt, entry, pressed, executed, well_formed>>

\* the posted request ends and search returns
search_return ==
    /\ main_pc = "tool"
    /\ step = "wait"
    /\ tool_call.method = "search"
    /\ \E response \in DirectSearchResponses :
          /\ Answered("search", response)
          /\ tool_result' = search(tool_call.query, tool_call.num_results, response)
    /\ step' = "done"
    /\ UNCHANGED <<tool_call, use_serper, session, shown, rendered, main_pc, runs, node,
                   state, locals, prompt, entry, pressed, executed, well_formed>>

\* scrape(url, max_length) is called: the page is requested
scrape_call ==
    /\ main_pc = "tool"
    /\ step = "entry"
    /\ tool_call.method = "scrape"
    /\ inflight = {}
    /\ Request("scrape", tool_call.url)
    /\ step' = "wait"
    /\ UNCHANGED <<tool_call, tool_result, use_serper, session, shown, rendered, main_pc,
                   runs, node, state, locals, prompt, entry, pressed, executed,
                   well_formed>>

\* the page request ends and scrape returns
scrape_return ==
    /\ main_pc = "tool"
    /\ step = "wait"
    /\ tool_call.method = "scrape"
    /\ \E response \in ScrapeResponses :
          /\ Answered("scrape", response)
          /\ tool_result' = scrape(tool_call.url, tool_call.max_length, response)
    /\ step' = "done"
    /\ UNCHANGED <<tool_call, use_serper, session, shown, rendered, main_pc, runs, node,
                   state, locals, prompt, entry, pressed, executed, well_formed>>

\* validate_input(company_domain, industry, project_description) is called
\* and returns
validate_input_call ==
    /\ main_pc = "tool"
    /\ step = "entry"
    /\ tool_call.method = "validate_input"
    /\ tool_result' = Returned(validate_input(tool_call.company_domain,
                                              tool_call.industry,
                                              tool_call.project_description))
    /\ step' = "done"
    /\ UNCHANGED <<tool_call, use_serper, session, shown, rendered, main_pc, runs, node,
                   state, locals, inflight, prompt, entry, answer, pressed, executed,
                   calls, well_formed>>

\* truncate_text(text, max_length, suffix) is called and returns
truncate_text_call ==
    /\ main_pc = "tool"
    /\ step = "entry"
    /\ tool_call.method = "truncate_text"
    /\ tool_result' = Returned(Str(truncate_text(tool_call.text, tool_call.max_length,
                                                 tool_call.suffix)))
    /\ step' = "done"
    /\ UNCHANGED <<tool_call, use_serper, session, shown, rendered, main_pc, runs, node,
                   state, locals, inflight, prompt, entry, answer, pressed, executed,
                   calls, well_formed>>

\* scrape_company_info(domain) is called: the url is built and the page is
\* requested
scrape_company_info_direct_call ==
    /\ main_pc = "tool"
    /\ step = "entry"
    /\ tool_call.method = "scrape_company_info"
    /\ inflight = {}
    /\ Request("scrape", CompanyUrl(tool_call.domain))
    /\ step' = "wait"
    /\ UNCHANGED <<tool_call, tool_result, use_serper, session, shown, rendered, main_pc,
                   runs, node, state, locals, prompt, entry, pressed, executed,
                   well_formed>>

\* the page request ends and scrape_company_info returns what scrape returns
scrape_company_info_direct_return ==
    /\ main_pc = "tool"
    /\ step = "wait"
    /\ tool_call.method = "scrape_company_info"
    /\ \E response \in ScrapeResponses :
          /\ Answered("scrape", response)
          /\ tool_result' = scrape_company_info(tool_call.domain, response)
    /\ step' = "done"
    /\ UNCHANGED <<tool_call, use_serper, session, shown, rendered, main_pc, runs, node,
                   state, locals, prompt, entry, pressed, executed, well_formed>>

\* safe_get(dictionary, *keys, default=default) is called and returns
safe_get_call ==
    /\ main_pc = "tool"
    /\ step = "entry"
    /\ tool_call.method = "safe_get"
    /\ tool_result' = Returned(safe_get(tool_call.dictionary, tool_call.keys,
                                        tool_call.default))
    /\ step' = "done"
    /\ UNCHANGED <<tool_call, use_serper, session, shown, rendered, main_pc, runs, node,
                   state, locals, inflight, prompt, entry, answer, pressed, executed,
                   calls, well_formed>>

ToolsNext ==
    \/ search_call
    \/ search_return
    \/ scrape_call
    \/ scrape_return
    \/ validate_input_call
    \/ truncate_text_call
    \/ scrape_company_info_direct_call
    \/ scrape_company_info_direct_return
    \/ safe_get_call

SpecTools == InitTools /\ [][ToolsNext]_vars

\* the application with every enabled step of a run eventually taken: each
\* external request returns or raises, and the orchestrator keeps going
SpecLive == Spec /\ WF_vars(StageNext) /\ WF_vars(WorkflowStep)

\* ========================================================================
\* Properties
\* ========================================================================
ResultFields == {"market_research", "trend_analysis", "marketing_strategy", "campaign_content"}

CompletedStep(stage) ==
    CASE stage = "market_research" -> "market_research_completed"
      [] stage = "trend_analysis" -> "trend_analysis_completed"
      [] stage = "strategy_planning" -> "strategy_planning_completed"
      [] stage = "content_creation" -> "content_creation_completed"

FailedStep(stage) ==
    CASE stage = "market_research" -> "market_research_failed"
      [] stage = "trend_analysis" -> "trend_analysis_failed"
      [] stage = "strategy_planning" -> "strategy_planning_failed"
      [] stage = "content_creation" -> "content_creation_failed"

\* the node function of the current node has just returned
StageReturned == step = "returned" /\ node \in Nodes /\ entry # None

\* the record is null or the key is absent
Missing(st, f) == Get(st, f) = None

\* ------------------------------------------------------------------------
\* C1  End-to-end success: a run that starts from the initial state built by
\* run_analysis and in which each of the four stages receives a well-formed
\* model response ends with market_research, trend_analysis,
\* marketing_strategy and campaign_content populated, current_step =
\* "content_creation_completed" and error still null.
\* ------------------------------------------------------------------------
C1_EndToEndSuccess ==
    /\ (main_pc = "running" /\ node = "START")
       => /\ \A f \in ResultFields : f \in DOMAIN state /\ state[f] = None
          /\ state.current_step = "initialized"
          /\ state.error = None
    /\ (main_pc = "running" /\ node = END /\ well_formed = Nodes)
       => /\ \A f \in ResultFields : f \in DOMAIN state /\ state[f] # None
          /\ state.current_step = "content_creation_completed"
          /\ state.error = None

C1_Witness ==
    /\ main_pc = "running"
    /\ node = END
    /\ well_formed = Nodes
    /\ state.campaign_content # None
    /\ Len(state.campaign_content.campaign_ideas) # Len(state.campaign_content.copies)

\* ------------------------------------------------------------------------
\* C2  A stage whose model call fails, or whose output is invalid JSON or
\* JSON missing a required key, returns a state with a non-empty error,
\* current_step = "<stage>_failed" and its own result field as it was on
\* entry; apart from the error text the returned state is the entry state
\* with current_step replaced, whatever the cause.
\* ------------------------------------------------------------------------
InvalidJson == {<<>>, <<"{", "name">>, <<"j", "s", "o", "n">>}

MissingKey(stage) ==
    CASE stage = "market_research" ->
            {Obj(<<"customer_profile", "D1", "competitors", "[", "D1", "]",
                   "target_audience", "D2">>)}
      [] stage = "trend_analysis" ->
            {Obj(<<"market_trends", "[", "S1", "]", "tech_trends", "[", "S1", "]",
                   "consumer_trends", "[", "S2", "]", "trend_impact", "S1">>)}
      [] stage = "strategy_planning" ->
            {Obj(<<"name", "S1", "goals", "[", "S1", "]", "tactics", "[", "S1", "]",
                   "channels", "[", "S2", "]">>)}
      [] stage = "content_creation" ->
            {Obj(<<"campaign_ideas", "[", "IDEA1", "]">>), Obj(<<"copies", "[", "COPY1", "]">>)}

FailureCause(stage, outcome) ==
    \/ ~outcome.ok
    \/ outcome.ok /\ outcome.value \in InvalidJson \cup MissingKey(stage)

C2_StageFailure ==
    (StageReturned /\ FailureCause(node, answer))
    => /\ state.error # None
       /\ state.error.text # <<>>
       /\ state.current_step = FailedStep(node)
       /\ Get(state, ResultField(node)) = Get(entry, ResultField(node))
       /\ state = Merge(entry, [error |-> state.error, current_step |-> FailedStep(node)])

C2_Witness ==
    /\ StageReturned
    /\ node = "content_creation"
    /\ answer = Returned(Obj(<<"campaign_ideas", "[", "IDEA1", "]">>))
    /\ entry.campaign_content # None
    /\ state.current_step = "content_creation_failed"

\* ------------------------------------------------------------------------
\* C3  In every run the four stages execute exactly once each, in the order
\* market_research, trend_analysis, strategy_planning, content_creation,
\* each receiving the state the previous one returned; there is no branch
\* or loop, and the run reaches the end of the workflow once every external
\* call has returned or raised.
\* ------------------------------------------------------------------------
IsPrefix(s, t) == Len(s) <= Len(t) /\ s = SubSeq(t, 1, Len(s))

C3_Order ==
    main_pc = "running"
    => /\ IsPrefix(executed, StageOrder)
       /\ node \in Nodes => (executed # <<>> /\ executed[Len(executed)] = node)
       /\ node = "START" => executed = <<>>
       /\ node = END => executed = StageOrder

\* the orchestrator hands over the returned state as it is
C3_HandOver ==
    (main_pc = "running" /\ main_pc' = "running" /\ node' # node) => state' = state

C3_LinearRun ==
    /\ []C3_Order
    /\ [][C3_HandOver]_vars
    /\ (main_pc = "running") ~> (main_pc = "running" /\ node = END)

C3_Witness ==
    /\ main_pc = "running"
    /\ node = END
    /\ executed = StageOrder
    /\ state.current_step = "content_creation_completed"

\* ------------------------------------------------------------------------
\* C4  The orchestrator does not short-circuit on error: when a stage
\* returns a state with error set, the next stage of the fixed order is
\* invoked on that very state, and the run ends only after all four stages
\* were invoked.
\* ------------------------------------------------------------------------
Successor(n) ==
    CASE n = "market_research" -> "trend_analysis"
      [] n = "trend_analysis" -> "strategy_planning"
      [] n = "strategy_planning" -> "content_creation"
      [] n = "content_creation" -> END

C4_Continues ==
    (main_pc = "running" /\ node \in Nodes /\ step = "returned" /\ state.error # None)
    => /\ main_pc' = "running"
       /\ node' = Successor(node)
       /\ node' # END => (step' = "entry" /\ executed' = Append(executed, node'))
       /\ state' = state

C4_EndsAfterAll ==
    (main_pc = "running" /\ node = END /\ state.error # None) => executed = StageOrder

C4_NoShortCircuit == []C4_EndsAfterAll /\ [][C4_Continues]_vars

C4_Witness ==
    /\ main_pc = "running"
    /\ node = END
    /\ executed = StageOrder
    /\ state.error = Str(<<"Market research failed: ", "APIError">>)
    /\ state.market_research = None
    /\ state.campaign_content # None

\* ------------------------------------------------------------------------
\* C5  A stage function invoked on a state whose upstream record is null or
\* absent puts the placeholder text into the prompt ("No market research
\* available", "No trend analysis available", "No marketing strategy
\* available", "No audience information available"), still issues its model
\* request, and completes when the response is well-formed.
\* ------------------------------------------------------------------------
C5_Prompt ==
    (main_pc = "direct" /\ step = "llm_wait")
    => /\ (node \in {"trend_analysis", "strategy_planning"} /\ Missing(state, "market_research"))
          => prompt.market_research = <<"No market research available">>
       /\ (node = "strategy_planning" /\ Missing(state, "trend_analysis"))
          => prompt.trend_analysis = <<"No trend analysis available">>
       /\ (node = "content_creation" /\ Missing(state, "marketing_strategy"))
          => prompt.marketing_strategy = <<"No marketing strategy available">>
       /\ (node = "content_creation" /\ Missing(state, "market_research"))
          => prompt.target_audience = <<"No audience information available">>

C5_Completes ==
    (main_pc = "direct" /\ StageReturned /\ \E f \in Upstream(node) : Missing(entry, f))
    => /\ calls # <<>>
       /\ calls[Len(calls)] = [kind |-> "llm", target |-> <<node>>]
       /\ answer \in WellFormed[node]["direct"]
          => /\ state.current_step = CompletedStep(node)
             /\ state[ResultField(node)] # None

C5_Placeholders == C5_Prompt /\ C5_Completes

C5_Witness ==
    /\ main_pc = "direct"
    /\ StageReturned
    /\ node = "content_creation"
    /\ "marketing_strategy" \notin DOMAIN entry
    /\ Missing(entry, "market_research")
    /\ state.current_step = "content_creation_completed"

\* ------------------------------------------------------------------------
\* C6  For every stage and every JSON object text J, a response that is J
\* inside code-fence markers (an opening fence with or without "json", a
\* closing fence, optional whitespace around J and around the whole text)
\* gives exactly the stage result that the response J gives.
\* ------------------------------------------------------------------------
\* text is pad, then rest, for one of the pads
AfterPad(text, Rest(_)) ==
    \E pad \in Pads : StartsWith(text, pad) /\ Rest(Drop(text, Len(pad)))

\* text is J between an opening and a closing fence, with pads around J and
\* around the whole
IsWrapped(text, J) ==
    LET closing(t) == AfterPad(t, LAMBDA u : StartsWith(u, Fence)
                                    /\ AfterPad(Drop(u, 3), LAMBDA v : v = <<>>))
        object(t) == StartsWith(t, J) /\ closing(Drop(t, Len(J)))
        opening(t) == \E open \in {FenceJson, Fence} :
                         StartsWith(t, open) /\ AfterPad(Drop(t, Len(open)), object)
    IN  AfterPad(text, opening)

C6_FenceTransparent ==
    (StageReturned /\ answer.ok)
    => \A J \in Objects(node) :
          IsWrapped(answer.value, J) => state = StageResult(node, entry, Returned(J))

C6_Witness ==
    /\ StageReturned
    /\ node = "content_creation"
    /\ answer = Returned(<<" ">> \o Fence \o Sample("content_creation") \o <<"\n">> \o Fence)
    /\ state.current_step = "content_creation_completed"

\* ------------------------------------------------------------------------
\* C7  Every stage invocation ends in exactly one of two ways: the stage's
\* result field holds a complete record and current_step is
\* "<stage>_completed", or error is set, current_step is "<stage>_failed"
\* and the result field is as it was on entry.  Content creation whose
\* ideas validate but whose copies do not leaves campaign_content as it was.
\* ------------------------------------------------------------------------
RecordFields(stage) ==
    CASE stage = "market_research" ->
            {"customer_profile", "competitors", "target_audience", "market_positioning"}
      [] stage = "trend_analysis" ->
            {"market_trends", "tech_trends", "consumer_trends", "trend_impact", "opportunities"}
      [] stage = "strategy_planning" -> {"name", "goals", "tactics", "channels", "KPIs"}
      [] stage = "content_creation" -> {"campaign_ideas", "copies"}

Succeeded(stage, st) ==
    /\ st.current_step = CompletedStep(stage)
    /\ ResultField(stage) \in DOMAIN st
    /\ st[ResultField(stage)] # None
    /\ DOMAIN st[ResultField(stage)] = RecordFields(stage)

Failed(stage, before, st) ==
    /\ st.current_step = FailedStep(stage)
    /\ st.error # None
    /\ Get(st, ResultField(stage)) = Get(before, ResultField(stage))

\* responses whose campaign ideas all validate and whose copies do not
IdeasWithoutCopies ==
    {ContentObj(IdeaList(1), <<"COPY1", "COPY_NO_BODY">>),
     Obj(<<"campaign_ideas", "[", "IDEA1", "]">>)}

C7_SuccessOrFailure ==
    StageReturned
    => /\ Succeeded(node, state) \/ Failed(node, entry, state)
       /\ ~(Succeeded(node, state) /\ Failed(node, entry, state))
       /\ state.current_step \in {CompletedStep(node), FailedStep(node)}
       /\ (node = "content_creation" /\ answer.ok /\ answer.value \in IdeasWithoutCopies)
          => /\ Failed(node, entry, state)
             /\ state.campaign_content = entry.campaign_content

C7_Witness ==
    /\ StageReturned
    /\ node = "content_creation"
    /\ answer = Returned(ContentObj(IdeaList(1), <<"COPY1", "COPY_NO_BODY">>))
    /\ state.campaign_content = None
    /\ state.current_step = "content_creation_failed"

\* ------------------------------------------------------------------------
\* C8  Once error is set during a run, no later stage overwrites a prior
\* result: a result field that is populated keeps its value in every later
\* state of the run in which error is set, whether the later stages succeed
\* or fail.
\* ------------------------------------------------------------------------
C8_Kept ==
    (main_pc = "running" /\ main_pc' = "running" /\ state'.error # None)
    => \A f \in ResultFields : state[f] # None => state'[f] = state[f]

C8_PriorResultsKept == [][C8_Kept]_vars

C8_Witness ==
    /\ main_pc = "running"
    /\ node = END
    /\ state.error = Str(<<"Trend analysis failed: ", "APIError">>)
    /\ state.market_research # None
    /\ state.marketing_strategy # None
    /\ state.campaign_content # None

\* ------------------------------------------------------------------------
\* C9  When Start Analysis is pressed with a blank company domain, a blank
\* industry, or a project description that is blank or shorter than 50
\* characters, the validation message is shown, the orchestrator is not
\* invoked, no stage executes and no model, search or scrape call is made.
\* ------------------------------------------------------------------------
Blank(s) == \A i \in 1..Len(s) : s[i] \in Whitespace

Rejected(p) ==
    \/ Blank(p.company_domain)
    \/ Blank(p.industry)
    \/ Blank(p.project_description)
    \/ Len(p.project_description) < 50

ValidationMessages ==
    {<<"Company domain is required">>, <<"Industry is required">>,
     <<"Project description is required">>,
     <<"Project description should be at least 50 characters">>}

\* the press itself
C9_Press ==
    (runs' = runs + 1 /\ Rejected(pressed'))
    => /\ \E m \in ValidationMessages : shown' = <<[kind |-> "error", text |-> m]>>
       /\ main_pc' = "idle"
       /\ UNCHANGED <<node, step, state, session, inflight>>

\* nothing runs for as long as the rejected input is the last one pressed
C9_NothingRuns ==
    (pressed # None /\ Rejected(pressed))
    => /\ main_pc = "idle"
       /\ node \notin Nodes
       /\ executed = <<>>
       /\ calls = <<>>
       /\ inflight = {}

C9_ValidationFirst == []C9_NothingRuns /\ [][C9_Press]_vars

C9_Witness ==
    /\ pressed # None
    /\ pressed.project_description = Rep("x", 49)
    /\ ~Blank(pressed.company_domain)
    /\ shown = <<[kind |-> "error",
                  text |-> <<"Project description should be at least 50 characters">>]>>
    /\ runs = 2
    /\ "analysis_result" \in DOMAIN session

\* ------------------------------------------------------------------------
\* C10  A failing search or scrape request inside market research or trend
\* analysis never sets error or a "_failed" current_step by itself: the
\* stage goes on to its model request with placeholder search results or
\* the text "No content available", and the returned state depends only on
\* the model call and the parsing of its output.
\* ------------------------------------------------------------------------
AdapterWait == {"entry_wait", "audience_wait", "scrape_wait"}

AdapterField(stage, at) ==
    CASE stage = "market_research" /\ at = "entry_wait" -> "competitor_results"
      [] stage = "market_research" /\ at = "audience_wait" -> "audience_results"
      [] stage = "trend_analysis" /\ at = "entry_wait" -> "trend_results"

\* an adapter request ends with a failure
C10_AdapterFails ==
    (node \in {"market_research", "trend_analysis"} /\ step \in AdapterWait
       /\ step' # step /\ ~answer'.ok)
    => /\ state' = state
       /\ step' \in {"audience", "scrape", "llm"}
       /\ step = "scrape_wait" => locals'.company_content = None
       /\ step # "scrape_wait"
          => /\ Len(locals'[AdapterField(node, step)]) = 3
             /\ \A i \in 1..3 :
                   locals'[AdapterField(node, step)][i].title[1] = "Search result for: "

\* the model request carries the placeholder text for a missing page
C10_Prompt ==
    (node = "market_research" /\ step = "llm_wait" /\ locals.company_content = None)
    => prompt.company_content = <<"No content available">>

\* the returned state is the one the model outcome alone determines
C10_Outcome ==
    (StageReturned /\ node \in {"market_research", "trend_analysis"})
    => /\ calls[Len(calls)] = [kind |-> "llm", target |-> <<node>>]
       /\ state = StageResult(node, entry, answer)

C10_AdaptersSilent == [](C10_Prompt /\ C10_Outcome) /\ [][C10_AdapterFails]_vars

C10_Witness ==
    /\ node = "market_research"
    /\ step = "llm_wait"
    /\ use_serper
    /\ locals.company_content = None
    /\ Len(locals.competitor_results) = 3
    /\ \A i \in 1..3 : locals.competitor_results[i].title[1] = "Search result for: "
    /\ state.error = None

\* ------------------------------------------------------------------------
\* C11  No retries: in one run of the workflow each stage sends at most one
\* model request, and no model, search or scrape request is sent a second
\* time, whether it succeeded or failed; a run sends at most eight requests.
\* ------------------------------------------------------------------------
RequestsTo(kind, target) ==
    SelectSeq(calls, LAMBDA c : c.kind = kind /\ c.target = target)

C11_NoRetries ==
    main_pc = "running"
    => /\ \A stage \in Nodes : Len(RequestsTo("llm", <<stage>>)) <= 1
       /\ \A i, j \in 1..Len(calls) : calls[i] = calls[j] => i = j
       /\ Len(calls) <= 8

\* the model request of market research raised and the trend search failed;
\* five requests were sent, none of them twice
C11_Witness ==
    /\ main_pc = "running"
    /\ node = "trend_analysis"
    /\ step = "llm"
    /\ answer = [ok |-> FALSE, data |-> <<>>]
    /\ state.error = Str(<<"Market research failed: ", "APIError">>)
    /\ Len(calls) = 5

\* ------------------------------------------------------------------------
\* C12  Without a search key, search(query, num_results) never raises and
\* returns placeholder results for the query: at most SimulatedCap of them
\* for any query and any count, at least one when the count is 1 or more,
\* and none when the count is 0.
\* ------------------------------------------------------------------------
SearchDone == main_pc = "tool" /\ step = "done" /\ tool_call.method = "search"

Placeholder(item, query) ==
    /\ DOMAIN item = {"title", "snippet", "link"}
    /\ item.title = <<"Search result for: ">> \o query
    /\ item.snippet = <<"This is a simulated search result.">>

C12_PlaceholdersBounded ==
    (SearchDone /\ ~use_serper)
    => /\ tool_result.ok
       /\ Len(tool_result.value) <= SimulatedCap
       /\ tool_call.num_results >= 1 => Len(tool_result.value) >= 1
       /\ tool_call.num_results = 0 => tool_result.value = <<>>
       /\ \A i \in 1..Len(tool_result.value) :
             Placeholder(tool_result.value[i], tool_call.query)

\* the statement as written: a non-empty list for any requested count
C12_NonEmptyForAnyCount ==
    (SearchDone /\ ~use_serper)
    => /\ tool_result.ok
       /\ Len(tool_result.value) >= 1
       /\ Len(tool_result.value) <= SimulatedCap

\* more results requested than the cap: the cap is returned
C12_Witness ==
    /\ SearchDone
    /\ ~use_serper
    /\ tool_call.num_results = SimulatedCap + 1
    /\ Len(tool_result.value) = SimulatedCap

\* ------------------------------------------------------------------------
\* C13  search(query, num_results) returns at most num_results records, each
\* with exactly the keys title, snippet and link, in the order of the
\* source: on the API path record i is made from organic result i, repeated
\* results included, and on the placeholder path every record is the
\* placeholder of the query.
\* ------------------------------------------------------------------------
ApiAnswered == use_serper /\ answer.ok

Organic == GetOr(answer.data, "organic", <<>>)

C13_AtMostRequestedInOrder ==
    SearchDone
    => /\ tool_result.ok
       /\ Len(tool_result.value) <= tool_call.num_results
       /\ \A i \in 1..Len(tool_result.value) :
             DOMAIN tool_result.value[i] = {"title", "snippet", "link"}
       /\ ApiAnswered
          => /\ Len(tool_result.value) = Min(tool_call.num_results, Len(Organic))
             /\ \A i \in 1..Len(tool_result.value) :
                   \A k \in {"title", "snippet", "link"} :
                      tool_result.value[i][k] = GetOr(Organic[i], k, <<>>)
       /\ ~ApiAnswered
          => \A i \in 1..Len(tool_result.value) :
                Placeholder(tool_result.value[i], tool_call.query)

\* two of three organic results were asked for: the first two come back as
\* they were sent, the second before the repeated first
C13_Witness ==
    /\ SearchDone
    /\ ApiAnswered
    /\ tool_call.num_results = 2
    /\ Len(Organic) = 3
    /\ Organic[1] = Organic[3]
    /\ Len(tool_result.value) = 2
    /\ tool_result.value[1].title = <<"T2">>
    /\ tool_result.value[2].title = <<"T1">>

\* ------------------------------------------------------------------------
\* C14  search posts to the search API exactly when a key was configured
\* when the adapter was built; without a key it makes no external request
\* and returns min(num_results, SimulatedCap) placeholder results: the same
\* number for every query, and SimulatedCap for every count from
\* SimulatedCap up.
\* ------------------------------------------------------------------------
C14_ApiIffKey ==
    /\ (main_pc = "tool" /\ tool_call.method = "search" /\ step # "entry")
       => /\ use_serper
             => calls = <<[kind |-> "search", target |-> tool_call.query]>>
          /\ ~use_serper => calls = <<>>
    /\ (SearchDone /\ ~use_serper)
       => /\ Len(tool_result.value) = Min(tool_call.num_results, SimulatedCap)
          /\ \A query \in Queries :
                Len(simulated_search(query, tool_call.num_results))
                   = Len(tool_result.value)

\* the statement as written: without a key the number of placeholder
\* results is the same for every requested result count
C14_SameNumberForEveryCount ==
    (SearchDone /\ ~use_serper)
    => \A query \in Queries, num_results \in Counts :
          Len(simulated_search(query, num_results)) = Len(tool_result.value)

\* no key, one result asked for: no request, one placeholder
C14_Witness ==
    /\ SearchDone
    /\ ~use_serper
    /\ calls = <<>>
    /\ tool_call.num_results = 1
    /\ Len(tool_result.value) = 1

\* ------------------------------------------------------------------------
\* C15  With a key configured, a failed search request (network error, HTTP
\* error status, undecodable body) does not make search raise: it returns
\* exactly the placeholder results the adapter without a key returns for
\* the same query and result count.
\* ------------------------------------------------------------------------
C15_FailureFallsBack ==
    (SearchDone /\ use_serper /\ ~answer.ok)
    => /\ tool_result.ok
       /\ tool_result.value = simulated_search(tool_call.query, tool_call.num_results)
       /\ Len(tool_result.value) = Min(tool_call.num_results, SimulatedCap)
       /\ \A i \in 1..Len(tool_result.value) :
             Placeholder(tool_result.value[i], tool_call.query)

\* the request for two results about "ai crm" failed: two placeholders
C15_Witness ==
    /\ SearchDone
    /\ use_serper
    /\ ~answer.ok
    /\ calls = <<[kind |-> "search", target |-> <<"a", "i", " ", "c", "r", "m">>]>>
    /\ tool_call.num_results = 2
    /\ Len(tool_result.value) = 2
    /\ tool_result.value[2].link = <<"https://example.com/search?q=", "a", "i", "+", "c", "r", "m">>

\* ------------------------------------------------------------------------
\* C16  scrape(url, max_length) never raises. When the fetch fails it
\* returns None. When it succeeds it returns the extracted text if that is
\* at most max_length long, and otherwise its first max_length characters
\* followed by "...": never more than max_length + 3 characters.
\* ------------------------------------------------------------------------
ScrapeDone == main_pc = "tool" /\ step = "done" /\ tool_call.method = "scrape"

Extracted == CleanText(answer.text)

C16_ScrapeBounded ==
    ScrapeDone
    => /\ tool_result.ok
       /\ ~answer.ok => tool_result.value = None
       /\ answer.ok
          => /\ tool_result.value # None
             /\ Len(tool_result.value.text) <= tool_call.max_length + Len(Ellipsis)
             /\ Len(Extracted) <= tool_call.max_length
                => tool_result.value.text = Extracted
             /\ Len(Extracted) > tool_call.max_length
                => /\ Len(tool_result.value.text) = tool_call.max_length + Len(Ellipsis)
                   /\ Take(tool_result.value.text, tool_call.max_length)
                         = Take(Extracted, tool_call.max_length)
                   /\ EndsWith(tool_result.value.text, Ellipsis)

\* an 18-character page cut at 17: 20 characters come back
C16_Witness ==
    /\ ScrapeDone
    /\ answer.ok
    /\ Len(Extracted) = 18
    /\ tool_call.max_length = 17
    /\ Len(tool_result.value.text) = 20
    /\ EndsWith(tool_result.value.text, Ellipsis)

\* ------------------------------------------------------------------------
\* C17  A press of Start Analysis with input that passes validation starts
\* exactly one run of the workflow, and a run starts in no other way. When
\* the run ends with error set, the banner "Analysis failed: ..." is shown,
\* the session keeps what it held and nothing of this run is rendered. When
\* it ends with error null, the final state is stored as analysis_result,
\* the success message is shown and the four tabs show its four records.
\* ------------------------------------------------------------------------
C17_Starts ==
    /\ (runs' = runs + 1 /\ ~Rejected(pressed'))
       => /\ main_pc = "idle" /\ main_pc' = "running"
          /\ node' = "START"
          /\ executed' = <<>>
          /\ state'.company_domain = pressed'.company_domain
          /\ state'.error = None
    /\ (main_pc # "running" /\ main_pc' = "running") => runs' = runs + 1
    /\ (node # "START" /\ node' = "START") => runs' = runs + 1
    /\ (main_pc = "running" /\ main_pc' = "running") => runs' = runs

C17_Ends ==
    (main_pc = "running" /\ main_pc' # "running")
    => /\ node = END
       /\ main_pc' = "idle"
       /\ executed = StageOrder
       /\ IF state.error # None
          THEN /\ shown' = <<[kind |-> "error",
                              text |-> <<"Analysis failed: ">> \o state.error.text]>>
               /\ session' = session
               /\ rendered' = Rendered(session)
          ELSE /\ shown' = <<[kind |-> "success", text |-> <<"Analysis completed!">>]>>
               /\ session'.analysis_result = state
               /\ \A f \in ResultFields : state[f] # None
               /\ rendered'.market_research = state.market_research
               /\ rendered'.trend_analysis = state.trend_analysis
               /\ rendered'.marketing_strategy = state.marketing_strategy
               /\ rendered'.campaigns.pairs = Zip(state.campaign_content.campaign_ideas,
                                                  state.campaign_content.copies)

C17_OneRunPerPress == [][C17_Starts /\ C17_Ends]_vars

\* the second run failed: its banner is up and the session still holds the
\* result of the first
C17_Witness ==
    /\ main_pc = "idle"
    /\ runs = 2
    /\ Len(shown) = 1
    /\ shown[1].kind = "error"
    /\ StartsWith(shown[1].text, <<"Analysis failed: ">>)
    /\ "analysis_result" \in DOMAIN session
    /\ session.analysis_result.error = None
    /\ rendered = display_results(session.analysis_result)

\* ------------------------------------------------------------------------
\* C18  An exception that escapes marketing_workflow.invoke is caught by
\* run_analysis: the generic error "An error occurred during analysis: ..."
\* is shown, the script run goes on (run_analysis returned None), and the
\* session keeps what it held: nothing of the interrupted run is stored or
\* rendered.
\* ------------------------------------------------------------------------
Escaped == main_pc = "running" /\ node # END /\ main_pc' # "running"

C18_Caught ==
    Escaped
    => /\ main_pc' = "idle"
       /\ \E e \in InvokeErrors :
             shown' = <<[kind |-> "error",
                         text |-> <<"An error occurred during analysis: ", e>>]>>
       /\ session' = session
       /\ rendered' = Rendered(session)
       /\ state' = None

C18_ExceptionCaught == [][C18_Caught]_vars

\* the second run was interrupted: the generic error is up, the result of
\* the first run is still the one stored and shown
C18_Witness ==
    /\ main_pc = "idle"
    /\ runs = 2
    /\ Len(shown) = 1
    /\ shown[1].kind = "error"
    /\ StartsWith(shown[1].text, <<"An error occurred during analysis: ">>)
    /\ "analysis_result" \in DOMAIN session
    /\ session.analysis_result.current_step = "content_creation_completed"
    /\ rendered = display_results(session.analysis_result)

\* ------------------------------------------------------------------------
\* C19  State is passed by value: when a stage returns, the state it was
\* handed is as it was at the call, and the returned state is a record with
\* the same keys that differs from it at most in the stage's own record,
\* error and current_step. The four input fields have in every state of a
\* run the values of the form.
\* ------------------------------------------------------------------------
InputFields == {"company_domain", "industry", "project_description", "target_market"}

C19_InputsKept ==
    main_pc = "running"
    => /\ \A f \in InputFields : state[f] = pressed[f]
       /\ entry # None => \A f \in InputFields : entry[f] = pressed[f]

C19_Returns ==
    (main_pc = "running" /\ node \in Nodes /\ step # "returned" /\ step' = "returned")
    => /\ entry' = state
       /\ DOMAIN state' = DOMAIN state
       /\ \A f \in DOMAIN state \ {ResultField(node), "error", "current_step"} :
             state'[f] = state[f]

C19_ByValue == []C19_InputsKept /\ [][C19_Returns]_vars

\* market research has returned its record; the state it was handed still
\* has none
C19_Witness ==
    /\ main_pc = "running"
    /\ StageReturned
    /\ node = "market_research"
    /\ entry.market_research = None
    /\ state.market_research # None
    /\ state.company_domain = pressed.company_domain

\* ------------------------------------------------------------------------
\* C20  Execution is sequential: at most one external request (model,
\* search, scrape) is in flight at any moment, and a request is sent only
\* when none is in flight. Within market research the calls are made in the
\* order competitor search, audience search, company scrape, model request,
\* each after the previous one has returned.
\* ------------------------------------------------------------------------
MarketResearchRequests ==
    (IF use_serper
     THEN <<[kind |-> "search",
             target |-> CompetitorsQuery(pressed.company_domain, pressed.industry)],
            [kind |-> "search",
             target |-> TargetAudienceQuery(pressed.industry,
                                            Take(pressed.project_description, 100))]>>
     ELSE <<>>)
    \o <<[kind |-> "scrape", target |-> CompanyUrl(pressed.company_domain)],
         [kind |-> "llm", target |-> <<"market_research">>]>>

C20_OneInFlight == Cardinality(inflight) <= 1

C20_Order ==
    (main_pc = "running" /\ node = "market_research")
    => /\ IsPrefix(calls, MarketResearchRequests)
       /\ ~use_serper
          => /\ locals.audience_results # <<>> => locals.competitor_results # <<>>
             /\ (calls # <<>> /\ step # "returned") => locals.audience_results # <<>>
       /\ (locals.company_content # None \/ step \in {"llm", "llm_wait"})
          => \E i \in 1..Len(calls) : calls[i].kind = "scrape"
       /\ (\E i \in 1..Len(calls) : calls[i].kind = "llm")
          => step \in {"llm_wait", "returned"}

C20_Sends ==
    (calls' # calls /\ calls' # <<>>)
    => /\ inflight = {}
       /\ Len(calls') = Len(calls) + 1
       /\ inflight' = {calls'[Len(calls')].kind}

C20_Sequential == [](C20_OneInFlight /\ C20_Order) /\ [][C20_Sends]_vars

\* with a key: the fourth request of market research, the model request, is
\* the only one in flight
C20_Witness ==
    /\ main_pc = "running"
    /\ node = "market_research"
    /\ use_serper
    /\ step = "llm_wait"
    /\ inflight = {"llm"}
    /\ calls = MarketResearchRequests

\* ------------------------------------------------------------------------
\* C21  Campaign ideas and copies are linked by list position only. Content
\* creation succeeds whenever the response holds a list of valid ideas and
\* a list of valid copies, whatever the two lengths; the page then shows
\* min(number of ideas, number of copies) campaigns, the i-th made of
\* campaign_ideas[i] and copies[i], and nothing for an unpaired entry.
\* ------------------------------------------------------------------------
C21_Created ==
    (main_pc = "running" /\ StageReturned /\ node = "content_creation"
        /\ "content_creation" \in well_formed)
    => /\ state.current_step = "content_creation_completed"
       /\ state.campaign_content # None
       /\ \E i, c \in 0..MaxItems :
             /\ Len(state.campaign_content.campaign_ideas) = i
             /\ Len(state.campaign_content.copies) = c

C21_Rendered ==
    (rendered # None /\ rendered.campaigns # None)
    => LET content == session.analysis_result.campaign_content
           pairs == rendered.campaigns.pairs
       IN  /\ Len(pairs) = Min(Len(content.campaign_ideas), Len(content.copies))
           /\ \A i \in 1..Len(pairs) :
                 /\ pairs[i][1] = content.campaign_ideas[i]
                 /\ pairs[i][2] = content.copies[i]

C21_PairedByPosition == C21_Created /\ C21_Rendered

\* two ideas and one copy were stored: one campaign is shown
C21_Witness ==
    /\ main_pc = "idle"
    /\ rendered # None
    /\ rendered.campaigns # None
    /\ Len(session.analysis_result.campaign_content.campaign_ideas) = 2
    /\ Len(session.analysis_result.campaign_content.copies) = 1
    /\ Len(rendered.campaigns.pairs) = 1

\* ------------------------------------------------------------------------
\* C22  validate_input returns (True, "") exactly when company_domain,
\* industry and project_description each hold a character that is not
\* whitespace and project_description is at least 50 characters long,
\* blanks counted. Otherwise it returns False with the message of the first
\* check that fails: domain, industry, description required, description
\* shorter than 50.
\* ------------------------------------------------------------------------
ValidateDone == main_pc = "tool" /\ step = "done" /\ tool_call.method = "validate_input"

NonBlank(s) == \E i \in 1..Len(s) : s[i] \notin Whitespace

FirstFailure(company_domain, industry, project_description) ==
    IF ~NonBlank(company_domain) THEN <<"Company domain is required">>
    ELSE IF ~NonBlank(industry) THEN <<"Industry is required">>
    ELSE IF ~NonBlank(project_description) THEN <<"Project description is required">>
    ELSE <<"Project description should be at least 50 characters">>

C22_Validation ==
    ValidateDone
    => LET r == tool_result.value
           accepted == /\ NonBlank(tool_call.company_domain)
                       /\ NonBlank(tool_call.industry)
                       /\ NonBlank(tool_call.project_description)
                       /\ Len(tool_call.project_description) >= 50
       IN  /\ tool_result.ok
           /\ r.is_valid <=> accepted
           /\ r.is_valid => r.error_msg = <<>>
           /\ ~r.is_valid
              => r.error_msg = FirstFailure(tool_call.company_domain, tool_call.industry,
                                            tool_call.project_description)

\* every field is blank: the domain is the one reported
C22_Witness ==
    /\ ValidateDone
    /\ tool_call.company_domain = <<" ">>
    /\ tool_call.industry = <<>>
    /\ tool_call.project_description = <<>>
    /\ tool_result.value = [is_valid |-> FALSE, error_msg |-> <<"Company domain is required">>]

\* ------------------------------------------------------------------------
\* C23  truncate_text truncates to the maximum length: for every text,
\* every max_length >= 0 and every suffix it returns the text unchanged
\* when len(text) <= max_length, and otherwise a string of at most
\* max_length characters that ends with the suffix.
\* ------------------------------------------------------------------------
TruncateDone == main_pc = "tool" /\ step = "done" /\ tool_call.method = "truncate_text"

C23_TruncatesToMaxLength ==
    TruncateDone
    => /\ tool_result.ok
       /\ Len(tool_call.text) <= tool_call.max_length
          => tool_result.value.text = tool_call.text
       /\ Len(tool_call.text) > tool_call.max_length
          => /\ Len(tool_result.value.text) <= tool_call.max_length
             /\ EndsWith(tool_result.value.text, tool_call.suffix)

\* ------------------------------------------------------------------------
\* C24  error is never reset during a run: once set it stays set in every
\* later state, a stage that succeeds hands it on unchanged, and in every
\* state of a run, the last included, error is non-null exactly when a stage
\* has failed and carries the message of the last stage that failed.
\* ------------------------------------------------------------------------
HasRun(stage) ==
    /\ \E i \in 1..Len(executed) : executed[i] = stage
    /\ node # stage \/ step = "returned"

HasFailed(stage) == HasRun(stage) /\ stage \notin well_formed

FailurePrefix(stage) ==
    CASE stage = "market_research" -> "Market research failed: "
      [] stage = "trend_analysis" -> "Trend analysis failed: "
      [] stage = "strategy_planning" -> "Strategy planning failed: "
      [] stage = "content_creation" -> "Content creation failed: "

LastFailed ==
    LET failed == {i \in 1..Len(StageOrder) : HasFailed(StageOrder[i])}
    IN  StageOrder[CHOOSE i \in failed : \A j \in failed : j <= i]

C24_ErrorOfLastFailure ==
    main_pc = "running"
    => /\ state.error # None <=> \E stage \in Nodes : HasFailed(stage)
       /\ state.error # None
          => /\ Len(state.error.text) = 2
             /\ state.error.text[1] = FailurePrefix(LastFailed)

C24_ErrorKept ==
    (main_pc = "running" /\ main_pc' = "running")
    => /\ state.error # None => state'.error # None
       /\ (state' # state /\ state'.current_step = CompletedStep(node))
          => state'.error = state.error

C24_ErrorNeverReset == []C24_ErrorOfLastFailure /\ [][C24_ErrorKept]_vars

\* market research failed and the three later stages succeeded: at the end
\* the error is still that of market research
C24_Witness ==
    /\ main_pc = "running"
    /\ node = END
    /\ well_formed = Nodes \ {"market_research"}
    /\ state.error = Str(<<"Market research failed: ", "APIError">>)
    /\ state.campaign_content # None

\* ------------------------------------------------------------------------
\* C25  In every state of a run, which starts with all four result fields
\* null, the result field of a stage is non-null exactly when that stage has
\* returned in this run and succeeded; the return of a stage leaves the
\* result fields of the other stages as they were.
\* ------------------------------------------------------------------------
C25_SetIffSucceeded ==
    main_pc = "running"
    => \A stage \in Nodes :
          state[ResultField(stage)] # None
             <=> (HasRun(stage) /\ stage \in well_formed)

C25_StartsNull ==
    (main_pc # "running" /\ main_pc' = "running")
    => \A f \in ResultFields : state'[f] = None

C25_OwnFieldOnly ==
    (main_pc = "running" /\ main_pc' = "running" /\ state' # state)
    => \A f \in ResultFields \ {ResultField(node)} : state'[f] = state[f]

C25_ResultFields == []C25_SetIffSucceeded /\ [][C25_StartsNull /\ C25_OwnFieldOnly]_vars

\* trend analysis failed, the stages before and after it succeeded: its
\* field alone is null during content creation
C25_Witness ==
    /\ main_pc = "running"
    /\ node = "content_creation"
    /\ step = "llm_wait"
    /\ state.market_research # None
    /\ state.trend_analysis = None
    /\ state.marketing_strategy # None
    /\ state.campaign_content = None
    /\ well_formed = {"market_research", "strategy_planning"}

\* ------------------------------------------------------------------------
\* C26  current_step is "initialized" until the first stage returns and
\* from then on "<stage>_completed" or "<stage>_failed" for the stage that
\* returned last, according to the outcome of that stage alone. At the end
\* of a run it is "content_creation_completed" or "content_creation_failed"
\* by the outcome of content creation, whatever happened before and
\* whether or not error is set.
\* ------------------------------------------------------------------------
LastReturned ==
    LET ran == {i \in 1..Len(StageOrder) : HasRun(StageOrder[i])}
    IN  StageOrder[CHOOSE i \in ran : \A j \in ran : j <= i]

C26_CurrentStep ==
    main_pc = "running"
    => /\ state.current_step
             \in {"initialized"} \cup {CompletedStep(stage) : stage \in Nodes}
                    \cup {FailedStep(stage) : stage \in Nodes}
       /\ (\A stage \in Nodes : ~HasRun(stage)) <=> state.current_step = "initialized"
       /\ (\E stage \in Nodes : HasRun(stage))
          => state.current_step = IF LastReturned \in well_formed
                                  THEN CompletedStep(LastReturned)
                                  ELSE FailedStep(LastReturned)
       /\ node = END
          => /\ LastReturned = "content_creation"
             /\ state.current_step \in {"content_creation_completed",
                                        "content_creation_failed"}

\* the run ends completed although the error of market research is set
C26_Witness ==
    /\ main_pc = "running"
    /\ node = END
    /\ state.current_step = "content_creation_completed"
    /\ state.error # None
    /\ state.error.text[1] = "Market research failed: "
    /\ state.market_research = None

\* ------------------------------------------------------------------------
\* C27  For every company domain string the url that scrape_company_info
\* passes to scrape begins with "http://" or "https://": a bare domain is
\* prefixed with "https://", a full url is passed on unchanged.
\* ------------------------------------------------------------------------
HttpScheme == <<"h", "t", "t", "p", ":", "/", "/">>

HttpsScheme == <<"h", "t", "t", "p", "s", ":", "/", "/">>

HasScheme(url) == StartsWith(url, HttpScheme) \/ StartsWith(url, HttpsScheme)

C27_UrlHasScheme ==
    (main_pc = "tool" /\ tool_call.method = "scrape_company_info" /\ calls # <<>>)
    => /\ calls[1].kind = "scrape"
       /\ HasScheme(calls[1].target)
       /\ calls[1].target = IF HasScheme(tool_call.domain) THEN tool_call.domain
                            ELSE HttpsScheme \o tool_call.domain

\* ------------------------------------------------------------------------
\* C28  The stored analysis_result changes in two ways only: a run that
\* ends with error null replaces it with its final state, and Clear removes
\* it. A press rejected by validation, a run that ends with error set and a
\* run that raises leave the session as it was, so the records stored by an
\* earlier run stay on the page next to the new error message.
\* ------------------------------------------------------------------------
Stored(session_state) ==
    IF "analysis_result" \in DOMAIN session_state THEN session_state.analysis_result
    ELSE None

EndsClean == main_pc = "running" /\ node = END /\ state.error = None

Cleared ==
    /\ main_pc = "idle" /\ main_pc' = "idle"
    /\ runs' = runs
    /\ Stored(session') = None
    /\ rendered' = None

C28_ChangesOnlyBy ==
    /\ Stored(session') # Stored(session)
       => \/ EndsClean /\ main_pc' = "idle" /\ Stored(session') = state
          \/ Cleared
    /\ (EndsClean /\ main_pc' = "idle") => Stored(session') = state

C28_Unsuccessful ==
    \/ runs' = runs + 1 /\ Rejected(pressed')
    \/ main_pc = "running" /\ main_pc' = "idle" /\ node = END /\ state.error # None
    \/ main_pc = "running" /\ main_pc' = "idle" /\ node # END

C28_Kept ==
    C28_Unsuccessful
    => /\ session' = session
       /\ Len(shown') = 1
       /\ shown'[1].kind = "error"
       /\ Stored(session) # None => rendered' = display_results(Stored(session))

C28_StoredResult == [][C28_ChangesOnlyBy /\ C28_Kept]_vars

\* a press without a description after a successful run: the message is up
\* and the page still shows the four records of that run
C28_Witness ==
    /\ main_pc = "idle"
    /\ runs = 2
    /\ pressed.project_description = <<>>
    /\ shown = <<[kind |-> "error", text |-> <<"Project description is required">>]>>
    /\ Stored(session) # None
    /\ rendered # None
    /\ rendered.market_research = Stored(session).market_research
    /\ rendered.campaigns # None

\* ------------------------------------------------------------------------
\* C29  safe_get(dictionary, k1..kn, default) returns the value reached by
\* following the keys through nested dicts when every key on the path is
\* present, and returns default whenever a key on the path is missing or an
\* intermediate value is not a dict, for every default, a dict included.
\* ------------------------------------------------------------------------
SafeGetDone == main_pc = "tool" /\ step = "done" /\ tool_call.method = "safe_get"

\* the value at the end of the path, or that there is none
RECURSIVE Follow(_, _)
Follow(value, keys) ==
    IF keys = <<>> THEN [found |-> TRUE, value |-> value]
    ELSE IF value.kind = "dict" /\ Head(keys) \in DOMAIN value.items
    THEN Follow(value.items[Head(keys)], Tail(keys))
    ELSE [found |-> FALSE, value |-> value]

C29_ValueOrDefault ==
    SafeGetDone
    => LET reached == Follow(tool_call.dictionary, tool_call.keys)
       IN  /\ tool_result.ok
           /\ tool_result.value = IF reached.found THEN reached.value
                                  ELSE tool_call.default

====
